---- MODULE Spec2Model ----
(***************************************************************************)
(* Model of the execution-chain library:                                   *)
(*   - ExecutionChain<Args...>  (src/unnamed/part_001, lines 69-236)       *)
(*   - BlockTuple<Actions...>   (src/unnamed/part_001, lines 258-390)      *)
(*   - If/Then/Else and Try/Fallback (src/unnamed/part_000)                *)
(*   - polymorphic_value: as the element of the chain's block list, and   *)
(*     on its own over a two-class hierarchy                               *)
(*     (src/execution_chain/polymorphic_value.h)                           *)
(*                                                                         *)
(* The blocks of a chain live on a heap of cells: a chain holds the        *)
(* addresses its polymorphic_values own, so that cloning, sharing and      *)
(* releasing are visible.  Caller-supplied actions are drawn from a small  *)
(* library modelled after the actions of the unit tests.                   *)
(***************************************************************************)
EXTENDS Integers, Sequences, FiniteSets, TLC

(***************************************************************************)
(* Bounds of the model.                                                    *)
(***************************************************************************)
\* the int arguments of the library actions are kept in 0..ArgMod-1
ArgMod == 8
\* largest number of blocks held by one chain (m_blocks.size())
MaxBlocks == 2
\* largest arity of a BlockTuple
MaxTuple == 2
\* number of heap cells: the ExecutionBlocks alive at one time
MaxObj == 3

(***************************************************************************)
(* The arguments of one invocation: two ints passed by reference           *)
(* (ExecutionChain<int&, int&> of the tests).                              *)
(***************************************************************************)
ArgValues == [a : 0..(ArgMod - 1), b : 0..(ArgMod - 1)]

MkArgs(x, y) == [a |-> x % ArgMod, b |-> y % ArgMod]

(***************************************************************************)
(* Caller-supplied actions.  A plain action is a callable object with an   *)
(* identity (its type), and a member x for the stateful ones.              *)
(*   Set12  void (int& a, int& b) const  { a = 1; b = 2; }                 *)
(*   Dbl    void (int& a, int& b) const  { a *= 2; b *= 2; }               *)
(*   Inc    bool (int& a, int&)   const  { ++a; return true; }             *)
(*   Fail   bool (int&, int& b)   const  { ++b; return false; }            *)
(*   Flip   bool (int& a, int&)   { a += 1 + x; x = 1 - x; return true; }  *)
(*   Gt     bool (int a, int)     const  { return a > 1; }                 *)
(*   Scan   bool (int& a, int& b) const  { b = a; return a > 1; }          *)
(*   Tag    void (int& a, int&)   const  { a += w.size(); }                *)
(*              with the member std::vector<int> w {1}; x is w.size()      *)
(*   Take   void (std::vector<int> w, int& b) const  { b += w.size(); }    *)
(*   Peek   void (const std::vector<int>& w, int& b) const                 *)
(*              { b += w.size(); }                                         *)
(*              for both the first argument is a vector, a is its size     *)
(*   Boom   void (int& a, int& b) const                                    *)
(*              { ++b; if (a > 1) throw std::runtime_error("boom"); }      *)
(***************************************************************************)
PlainIds ==
    {"Set12", "Dbl", "Inc", "Fail", "Flip", "Gt", "Scan", "Boom", "Tag", "Take",
     "Peek"}

Plain(id) == [kind |-> "plain", id |-> id, x |-> 0]

\* Tag{}: the vector w holds one element
Tag == [kind |-> "plain", id |-> "Tag", x |-> 1]

\* the arguments after one call of the plain action
Effect(act, v) ==
    CASE act.id = "Set12" -> MkArgs(1, 2)
      [] act.id = "Dbl"   -> MkArgs(v.a * 2, v.b * 2)
      [] act.id = "Inc"   -> MkArgs(v.a + 1, v.b)
      [] act.id \in {"Fail", "Boom"} -> MkArgs(v.a, v.b + 1)
      [] act.id = "Flip"  -> MkArgs(v.a + 1 + act.x, v.b)
      [] act.id = "Scan"  -> MkArgs(v.a, v.a)
      [] act.id = "Tag"   -> MkArgs(v.a + act.x, v.b)
      [] act.id \in {"Take", "Peek"} -> MkArgs(v.a, v.b + v.a)
      [] OTHER            -> v

\* the action object after one call
NextState(act, v) ==
    IF act.id = "Flip" THEN [act EXCEPT !.x = 1 - act.x] ELSE act

\* what the call returns: "void" for an action without a boolean result,
\* "throw" for a call that ends in an exception
Returns(act, v) ==
    CASE act.id \in {"Set12", "Dbl", "Tag", "Take", "Peek"} -> "void"
      [] act.id = "Boom"              -> IF v.a > 1 THEN "throw" ELSE "void"
      [] act.id \in {"Inc", "Flip"}   -> "true"
      [] act.id = "Fail"              -> "false"
      [] OTHER (* Gt, Scan *)         -> IF v.a > 1 THEN "true" ELSE "false"

\* actions whose operator() is const: the only ones a const Execute can call
ConstCallable(id) == id # "Flip"

(***************************************************************************)
(* Composite actions.  Each owns its constituents as members.              *)
(***************************************************************************)
\* If(p): the builder holding the predicate
If(logic) == [kind |-> "If", m_logic |-> logic]

\* Try(t): the builder holding the primary action
Try(try_) == [kind |-> "Try", m_try |-> try_]

\* If(p).Then(t)
IfThen(p, t) == [kind |-> "IfThen", m_predicate |-> p, m_then |-> t]

\* If(p).Then(t).Else(e)
IfThenElse(p, t, e) ==
    [kind |-> "IfThenElse", m_predicate |-> p, m_then |-> t, m_elseThen |-> e]

\* Try(t).Fallback(f)
TryFallback(t, f) == [kind |-> "TryFallback", m_try |-> t, m_fallback |-> f]

\* If::Then
Then(builder, then_) == IfThen(builder.m_logic, then_)

\* IfThen::Else
Else(ifThen, elseThen) == IfThenElse(ifThen.m_predicate, ifThen.m_then, elseThen)

\* Try::Fallback
Fallback(builder, fallback) == TryFallback(builder.m_try, fallback)

\* a BlockTuple holding the actions of the sequence s
BlockTuple(s) == [kind |-> "BlockTuple", m_actions |-> s]

\* start_chain: BlockTuple<void>, the sequence without elements
start_chain == BlockTuple(<< >>)

(***************************************************************************)
(* The type of an action, as a sequence of names: what a call is logged    *)
(* under.  The state of the object is not part of it.                      *)
(***************************************************************************)
RECURSIVE Label(_)
RECURSIVE LabelAll(_)
Label(act) ==
    CASE act.kind = "plain"       -> << act.id >>
      [] act.kind = "IfThen"      ->
            << "IfThen" >> \o Label(act.m_predicate) \o Label(act.m_then)
      [] act.kind = "IfThenElse"  ->
            << "IfThenElse" >> \o Label(act.m_predicate) \o Label(act.m_then)
                \o Label(act.m_elseThen)
      [] act.kind = "TryFallback" ->
            << "TryFallback" >> \o Label(act.m_try) \o Label(act.m_fallback)
      [] act.kind = "BlockTuple"  -> << "BlockTuple" >> \o LabelAll(act.m_actions)
      [] OTHER                    -> << "?" >>

LabelAll(s) == IF s = << >> THEN << >> ELSE Label(Head(s)) \o LabelAll(Tail(s))

\* one entry of the call log: the action called, the nesting depth of the
\* call (0: called by a chain block or as an element of a sequence), the
\* arguments the call found and left, and what it returned
Entry(act, d, v, w, ret) ==
    [label |-> Label(act), depth |-> d, in |-> v, out |-> w, ret |-> ret]

(***************************************************************************)
(* Invocation.  Invoke(act, v, d) is the call act(args...) on the          *)
(* arguments v: the object after the call, the arguments after the call,   *)
(* the raw result ("void", "true", "false") and the calls made, in order.  *)
(***************************************************************************)
RECURSIVE Invoke(_, _, _)
RECURSIVE Call(_, _, _)
RECURSIVE InvokeAll(_, _, _)

\* faulty variant of detail::Call: only a result of true continues
CallResult_raw(r) ==
    [r EXCEPT !.ret = IF r.ret \in {"true", "throw"} THEN r.ret ELSE "false"]

\* detail::Call: the boolean continuation result of a callable
\* (an exception leaves it before a result exists)
CallResult(r) ==
    [r EXCEPT !.ret = IF r.ret \in {"false", "throw"} THEN r.ret ELSE "true"]

Call(callable, v, d) == CallResult(Invoke(callable, v, d))

\* IfThen::Execute (const: the members are not modified); an exception of
\* the predicate or of the branch leaves the function
IfThenExecute(act, v, d) ==
    LET p == Invoke(act.m_predicate, v, d + 1)
        t == Call(act.m_then, p.args, d + 1)
    IN  IF p.ret = "throw"
        THEN [act |-> act, args |-> p.args, ret |-> "throw",
              log |-> << Entry(act, d, v, p.args, "throw") >> \o p.log]
        ELSE IF p.ret # "true"
        THEN [act |-> act, args |-> p.args, ret |-> "true",
              log |-> << Entry(act, d, v, p.args, "true") >> \o p.log]
        ELSE [act |-> act, args |-> t.args, ret |-> t.ret,
              log |-> << Entry(act, d, v, t.args, t.ret) >> \o p.log \o t.log]

\* faulty variant of IfThenElse::Execute: the branches are exchanged
IfThenElseExecute_swapped(act, v, d) ==
    LET p == Invoke(act.m_predicate, v, d + 1)
        t == Call(act.m_then, p.args, d + 1)
        e == Call(act.m_elseThen, p.args, d + 1)
    IN  IF p.ret # "true"
        THEN [act |-> act, args |-> t.args, ret |-> t.ret,
              log |-> << Entry(act, d, v, t.args, t.ret) >> \o p.log \o t.log]
        ELSE [act |-> act, args |-> e.args, ret |-> e.ret,
              log |-> << Entry(act, d, v, e.args, e.ret) >> \o p.log \o e.log]

\* IfThenElse::Execute (const)
IfThenElseExecute(act, v, d) ==
    LET p == Invoke(act.m_predicate, v, d + 1)
        t == Call(act.m_then, p.args, d + 1)
        e == Call(act.m_elseThen, p.args, d + 1)
    IN  IF p.ret = "throw"
        THEN [act |-> act, args |-> p.args, ret |-> "throw",
              log |-> << Entry(act, d, v, p.args, "throw") >> \o p.log]
        ELSE IF p.ret = "true"
        THEN [act |-> act, args |-> t.args, ret |-> t.ret,
              log |-> << Entry(act, d, v, t.args, t.ret) >> \o p.log \o t.log]
        ELSE [act |-> act, args |-> e.args, ret |-> e.ret,
              log |-> << Entry(act, d, v, e.args, e.ret) >> \o p.log \o e.log]

\* faulty variant of TryFallback::Execute: | instead of ||, the fallback is
\* always evaluated
TryFallbackExecute_eager(act, v, d) ==
    LET t == Call(act.m_try, v, d + 1)
        f == Call(act.m_fallback, t.args, d + 1)
    IN  [act |-> [act EXCEPT !.m_try = t.act, !.m_fallback = f.act],
         args |-> f.args,
         ret |-> IF t.ret = "true" THEN "true" ELSE f.ret,
         log |-> << Entry(act, d, v, f.args, f.ret) >> \o t.log \o f.log]

\* TryFallback::Execute (not const: the members keep their new state)
TryFallbackExecute(act, v, d) ==
    LET t == Call(act.m_try, v, d + 1)
        f == Call(act.m_fallback, t.args, d + 1)
    IN  IF t.ret \in {"true", "throw"}
        THEN [act |-> [act EXCEPT !.m_try = t.act], args |-> t.args,
              ret |-> t.ret,
              log |-> << Entry(act, d, v, t.args, t.ret) >> \o t.log]
        ELSE [act |-> [act EXCEPT !.m_try = t.act, !.m_fallback = f.act],
              args |-> f.args, ret |-> f.ret,
              log |-> << Entry(act, d, v, f.args, f.ret) >> \o t.log \o f.log]

\* faulty variant of the fold: it stops after an element returning false
RECURSIVE InvokeAll_stop(_, _, _)
InvokeAll_stop(s, v, d) ==
    IF s = << >>
    THEN [acts |-> << >>, args |-> v, log |-> << >>, thrown |-> FALSE]
    ELSE LET h == Invoke(Head(s), v, d)
             r == IF h.ret \in {"false", "throw"}
                  THEN [acts |-> Tail(s), args |-> h.args, log |-> << >>,
                        thrown |-> h.ret = "throw"]
                  ELSE InvokeAll_stop(Tail(s), h.args, d)
         IN  [acts |-> << h.act >> \o r.acts, args |-> r.args,
              log |-> h.log \o r.log, thrown |-> r.thrown]

\* the fold of BlockTuple::Execute: every element invoked in order, the
\* results discarded; an exception of an element ends the fold
InvokeAll(s, v, d) ==
    IF s = << >>
    THEN [acts |-> << >>, args |-> v, log |-> << >>, thrown |-> FALSE]
    ELSE LET h == Invoke(Head(s), v, d)
             r == IF h.ret = "throw"
                  THEN [acts |-> Tail(s), args |-> h.args, log |-> << >>,
                        thrown |-> TRUE]
                  ELSE InvokeAll(Tail(s), h.args, d)
         IN  [acts |-> << h.act >> \o r.acts, args |-> r.args,
              log |-> h.log \o r.log, thrown |-> r.thrown]

\* BlockTuple::Execute / operator()
BlockTupleExecute(act, v, d) ==
    LET r == InvokeAll(act.m_actions, v, d)
    IN  [act |-> [act EXCEPT !.m_actions = r.acts], args |-> r.args,
         ret |-> IF r.thrown THEN "throw" ELSE "void", log |-> r.log]

Invoke(act, v, d) ==
    CASE act.kind = "plain"       ->
            [act |-> NextState(act, v), args |-> Effect(act, v),
             ret |-> Returns(act, v),
             log |-> << Entry(act, d, v, Effect(act, v), Returns(act, v)) >>]
      [] act.kind = "IfThen"      -> IfThenExecute(act, v, d)
      [] act.kind = "IfThenElse"  -> IfThenElseExecute(act, v, d)
      [] act.kind = "TryFallback" -> TryFallbackExecute(act, v, d)
      [] act.kind = "BlockTuple"  -> BlockTupleExecute(act, v, d)
      [] OTHER                    ->
            [act |-> act, args |-> v, ret |-> "void", log |-> << >>]

(***************************************************************************)
(* State.                                                                  *)
(***************************************************************************)
VARIABLES
    heap,        \* the heap: address -> the ExecutionBlock living there, or free
    chains,      \* chain name -> m_blocks, the addresses its polymorphic_values own
    blockTuple,  \* the caller's named BlockTuple (start_chain | a1 | ... | an)
    flow,        \* the caller's named composite action (If/Then/Else, Try/Fallback)
    args,        \* the caller's argument variables (x, y), passed by reference
    result,      \* what the last direct call of flow returned
    log,         \* the calls made by the last invocation, in order
    appended,    \* history: chain name -> labels of the actions appended to it
    origin,      \* history: "emptied" / "copy" while the chain is as  = {}  or a
                 \* copy assignment left it (invocations aside), else "built"
    last,        \* history: the last operation and its operands
    piped,       \* the caller's second named BlockTuple, built with | from blockTuple
    values,      \* container name -> the caller's named polymorphic_value
    outcome      \* how the last operation ended: "ok", left by an exception of
                 \* an action ("exception"), rejected by the compiler,
                 \* an exception, a failed assertion, an invalid reference

vars ==
    << heap, chains, blockTuple, flow, args, result, log, appended, origin, last,
       piped, values, outcome >>

ChainNames == {"chain", "chain2"}

\* the caller's named containers: two polymorphic_value<Base> and one
\* polymorphic_value<Derived>
ValueNames == {"b1", "b2", "d1"}

\* the interface type T of the container named n
InterfaceOf(n) == IF n = "d1" THEN "Derived" ELSE "Base"

\* no control block: the value of an empty cb_
Null == 0

\* polymorphic_value<T>(): the default-constructed container named n
polymorphic_value(n) == [T |-> InterfaceOf(n), cb_ |-> Null]

Addr == 1..MaxObj

FreeCell == [kind |-> "free"]

EmptyHeap == [p \in Addr |-> FreeCell]

\* the operation record kept in last: the operation, its target chain, its
\* source chain, its source action, its arguments, and how many blocks the
\* target held when the operation began
Op(op, c, d, a, v, held) ==
    [op |-> op, c |-> c, d |-> d, a |-> a, v |-> v, held |-> held]

NoArgs == MkArgs(0, 0)

(***************************************************************************)
(* polymorphic_value<IExecutionBlock> and the block list.                  *)
(* A store is a heap with one block list: [heap, blocks].                  *)
(***************************************************************************)
Store(h, bl) == [heap |-> h, blocks |-> bl]

FreeAddrs(h) == {p \in DOMAIN h : h[p].kind = "free"}

\* operator new: the lowest free address
NewAddr(h) == CHOOSE p \in FreeAddrs(h) : \A q \in FreeAddrs(h) : p <= q

\* the state an object is left in when m_action(std::move(action)) has
\* moved from it: a trivially copyable action is copied, the vector of a
\* Tag is left empty, a composite action moves its members
RECURSIVE MovedFrom(_)
MovedFrom(act) ==
    CASE act.kind = "plain" ->
            IF act.id = "Tag" THEN [act EXCEPT !.x = 0] ELSE act
      [] act.kind = "BlockTuple" ->
            [act EXCEPT !.m_actions =
                [i \in 1..Len(act.m_actions) |-> MovedFrom(act.m_actions[i])]]
      [] act.kind = "IfThen" ->
            [act EXCEPT !.m_predicate = MovedFrom(@), !.m_then = MovedFrom(@)]
      [] act.kind = "IfThenElse" ->
            [act EXCEPT !.m_predicate = MovedFrom(@), !.m_then = MovedFrom(@),
                        !.m_elseThen = MovedFrom(@)]
      [] act.kind = "TryFallback" ->
            [act EXCEPT !.m_try = MovedFrom(@), !.m_fallback = MovedFrom(@)]
      [] OTHER -> act

\* ExecutionChain::create_block: an ExecutionBlock<decay_t<ActionT>> built
\* from the action
create_block(action) == [kind |-> "ExecutionBlock", m_action |-> action]

\* control_block::clone (pointer_control_block with default_copy): new U(*p)
clone(cell) == cell

\* faulty variant of emplace_back: the new block is put first
emplace_front(st, obj) ==
    LET p == NewAddr(st.heap)
    IN  Store([st.heap EXCEPT ![p] = obj], << p >> \o st.blocks)

\* m_blocks.emplace_back(unique_ptr): the polymorphic_value takes the object
emplace_back(st, obj) ==
    LET p == NewAddr(st.heap)
    IN  Store([st.heap EXCEPT ![p] = obj], Append(st.blocks, p))

\* faulty variant of the copy: the new polymorphic_value holds the object
\* of p itself
CopyValue_share(st, p) == Store(st.heap, Append(st.blocks, p))

\* polymorphic_value(const polymorphic_value&): a new object, clone of p's
CopyValue(st, p) == emplace_back(st, clone(st.heap[p]))

\* ~polymorphic_value for every element: the objects are released
RECURSIVE Release(_, _)
Release(h, bl) ==
    IF bl = << >> THEN h
    ELSE Release([h EXCEPT ![Head(bl)] = FreeCell], Tail(bl))

\* m_blocks.clear()
clear(st) == Store(Release(st.heap, st.blocks), << >>)

\* ExecutionChain::append(ActionT&&) and append(BlockTupleT&&)
append(st, action) == emplace_back(st, create_block(action))

\* faulty variant of the range insert: the new elements are the other
\* vector's own objects
insert_alias(st, rhs) == Store(st.heap, st.blocks \o rhs)

\* m_blocks.insert(m_blocks.end(), rhs.begin(), rhs.end()): copies of the
\* polymorphic_values of rhs, in order
RECURSIVE insert(_, _)
insert(st, rhs) ==
    IF rhs = << >> THEN st
    ELSE insert(CopyValue(st, Head(rhs)), Tail(rhs))

\* ExecutionChain::append(RhsT&&...) for one other chain
append_chain(st, rhs) == insert(st, rhs)

\* faulty variant of operator=: m_blocks.clear() is missing
assign_noclear(st, action) == append(st, action)

\* ExecutionChain::operator=(ActionT&&) and operator=(BlockTupleT&&)
assign(st, action) == append(clear(st), action)

\* ExecutionChain(ActionT&&) and ExecutionChain(BlockTupleT&&): a new chain
\* in a program holding nothing else
construct(action) == append(Store(EmptyHeap, << >>), action)

\* ExecutionChain::operator=(const ExecutionChain&): the vector is replaced
\* by copies of the elements of rhs
copy_assign(st, rhs) == insert(clear(st), rhs)

\* ExecutionChain(const ExecutionChain&): copies of the elements of rhs
copy_construct(h, rhs) == insert(Store(h, << >>), rhs)

\* faulty variant of the move assignment: the old elements stay
move_assign_keep(st, rhs) == Store(st.heap, st.blocks \o rhs)

\* ExecutionChain::operator=(ExecutionChain&&): the old elements are
\* released and the vector takes the elements of rhs, which are not copied
move_assign(st, rhs) == Store(Release(st.heap, st.blocks), rhs)

\* faulty variant of the loop: it stops after a block returning false
RECURSIVE ExecuteFrom_stop(_, _, _, _)
ExecuteFrom_stop(h, bl, i, v) ==
    IF i > Len(bl)
    THEN [heap |-> h, args |-> v, log |-> << >>, thrown |-> FALSE]
    ELSE LET cell == h[bl[i]]
             r    == Invoke(cell.m_action, v, 0)
             h2   == [h EXCEPT ![bl[i]].m_action = r.act]
             rest == IF r.ret \in {"false", "throw"}
                     THEN [heap |-> h2, args |-> r.args, log |-> << >>,
                           thrown |-> r.ret = "throw"]
                     ELSE ExecuteFrom_stop(h2, bl, i + 1, r.args)
         IN  [heap |-> rest.heap, args |-> rest.args, log |-> r.log \o rest.log,
              thrown |-> rest.thrown]

\* faulty variant of the loop: every block gets its own copy of the
\* arguments the caller passed
RECURSIVE ExecuteFrom_copy(_, _, _, _)
ExecuteFrom_copy(h, bl, i, v) ==
    IF i > Len(bl)
    THEN [heap |-> h, args |-> v, log |-> << >>, thrown |-> FALSE]
    ELSE LET cell == h[bl[i]]
             r    == Invoke(cell.m_action, v, 0)
             h2   == [h EXCEPT ![bl[i]].m_action = r.act]
             rest == IF r.ret = "throw"
                     THEN [heap |-> h2, args |-> r.args, log |-> << >>,
                           thrown |-> TRUE]
                     ELSE ExecuteFrom_copy(h2, bl, i + 1, v)
         IN  [heap |-> rest.heap,
              args |-> IF i = Len(bl) \/ r.ret = "throw"
                       THEN r.args ELSE rest.args,
              log |-> r.log \o rest.log, thrown |-> rest.thrown]

\* faulty variant of the loop: an exception of a block is swallowed and
\* the loop goes on with the next block
RECURSIVE ExecuteFrom_swallow(_, _, _, _)
ExecuteFrom_swallow(h, bl, i, v) ==
    IF i > Len(bl)
    THEN [heap |-> h, args |-> v, log |-> << >>, thrown |-> FALSE]
    ELSE LET cell == h[bl[i]]
             r    == Invoke(cell.m_action, v, 0)
             h2   == [h EXCEPT ![bl[i]].m_action = r.act]
             rest == ExecuteFrom_swallow(h2, bl, i + 1, r.args)
         IN  [heap |-> rest.heap, args |-> rest.args, log |-> r.log \o rest.log,
              thrown |-> FALSE]

\* ExecutionBlock::Execute on the blocks from index i on, in order; the
\* result of std::invoke is discarded, an exception of a block leaves the
\* loop and reaches the caller
RECURSIVE ExecuteFrom(_, _, _, _)
ExecuteFrom(h, bl, i, v) ==
    IF i > Len(bl)
    THEN [heap |-> h, args |-> v, log |-> << >>, thrown |-> FALSE]
    ELSE LET cell == h[bl[i]]
             r    == IF cell.kind = "ExecutionBlock"
                     THEN Invoke(cell.m_action, v, 0)
                     ELSE [act |-> cell, args |-> v, ret |-> "void", log |-> << >>]
             h2   == IF cell.kind = "ExecutionBlock"
                     THEN [h EXCEPT ![bl[i]].m_action = r.act]
                     ELSE h
             rest == IF r.ret = "throw"
                     THEN [heap |-> h2, args |-> r.args, log |-> << >>,
                           thrown |-> TRUE]
                     ELSE ExecuteFrom(h2, bl, i + 1, r.args)
         IN  [heap |-> rest.heap, args |-> rest.args, log |-> r.log \o rest.log,
              thrown |-> rest.thrown]

\* ExecutionChain::Execute / operator()
Execute(h, bl, v) == ExecuteFrom(h, bl, 1, v)

(***************************************************************************)
(* The operations a caller applies to the named chains and to the named    *)
(* BlockTuple.  args and log describe the invocation that just ended: the  *)
(* caller's argument variables go out of scope when it moves on.           *)
(***************************************************************************)
\* the labels of the actions a source adds to a chain, in order
Labels(action) ==
    IF action.kind = "BlockTuple"
    THEN [i \in 1..Len(action.m_actions) |-> Label(action.m_actions[i])]
    ELSE << Label(action) >>

StoreOf(c) == Store(heap, chains[c])

\* the chain c takes the blocks of the store st; no invocation is in scope
Put(c, st) ==
    /\ heap' = st.heap
    /\ chains' = [chains EXCEPT ![c] = st.blocks]
    /\ args' = NoArgs
    /\ log' = << >>

Init ==
    /\ heap = EmptyHeap
    /\ chains = [c \in ChainNames |-> << >>]
    /\ blockTuple = start_chain
    /\ flow = start_chain
    /\ args = NoArgs
    /\ result = "none"
    /\ log = << >>
    /\ appended = [c \in ChainNames |-> << >>]
    /\ origin = [c \in ChainNames |-> "built"]
    /\ last = Op("init", "", "", start_chain, NoArgs, 0)
    /\ piped = start_chain
    /\ values = [n \in ValueNames |-> polymorphic_value(n)]
    /\ outcome = "ok"

\* chain |= action   (operator|=(ActionT&&), a temporary action or sequence)
OpAppend(c, a) ==
    /\ Len(chains[c]) < MaxBlocks
    /\ FreeAddrs(heap) # {}
    /\ Put(c, append(StoreOf(c), a))
    /\ appended' = [appended EXCEPT ![c] = @ \o Labels(a)]
    /\ origin' = [origin EXCEPT ![c] = "built"]
    /\ last' = Op("append", c, "", a, NoArgs, Len(chains[c]))
    /\ UNCHANGED << blockTuple, flow, result, piped, values, outcome >>

\* chain |= blockTuple   (operator|=(BlockTupleT&&) with the named sequence)
OpAppendTuple(c) ==
    /\ Len(chains[c]) < MaxBlocks
    /\ FreeAddrs(heap) # {}
    /\ blockTuple.m_actions # << >>
    /\ Put(c, append(StoreOf(c), blockTuple))
    /\ blockTuple' = MovedFrom(blockTuple)
    /\ appended' = [appended EXCEPT ![c] = @ \o Labels(blockTuple)]
    /\ origin' = [origin EXCEPT ![c] = "built"]
    /\ last' = Op("append", c, "", blockTuple, NoArgs, Len(chains[c]))
    /\ UNCHANGED << flow, result, piped, values, outcome >>

\* chain.append(other)
OpAppendChain(c, d) ==
    /\ c # d
    /\ chains[d] # << >>
    /\ Len(chains[c]) + Len(chains[d]) <= MaxBlocks
    /\ Len(chains[d]) <= Cardinality(FreeAddrs(heap))
    /\ Put(c, append_chain(StoreOf(c), chains[d]))
    /\ appended' = [appended EXCEPT ![c] = @ \o appended[d]]
    /\ origin' = [origin EXCEPT ![c] = "built"]
    /\ last' = Op("append_chain", c, d, start_chain, NoArgs, Len(chains[c]))
    /\ UNCHANGED << blockTuple, flow, result, piped, values, outcome >>

\* chain = action   (operator=(ActionT&&), a temporary action or sequence)
OpAssign(c, a) ==
    /\ FreeAddrs(heap) # {} \/ chains[c] # << >>
    /\ Put(c, assign(StoreOf(c), a))
    /\ appended' = [appended EXCEPT ![c] = Labels(a)]
    /\ origin' = [origin EXCEPT ![c] = "built"]
    /\ last' = Op("assign", c, "", a, NoArgs, Len(chains[c]))
    /\ UNCHANGED << blockTuple, flow, result, piped, values, outcome >>

\* chain = blockTuple   (operator=(BlockTupleT&&) with the named sequence)
OpAssignTuple(c) ==
    /\ blockTuple.m_actions # << >>
    /\ FreeAddrs(heap) # {} \/ chains[c] # << >>
    /\ Put(c, assign(StoreOf(c), blockTuple))
    /\ blockTuple' = MovedFrom(blockTuple)
    /\ appended' = [appended EXCEPT ![c] = Labels(blockTuple)]
    /\ origin' = [origin EXCEPT ![c] = "built"]
    /\ last' = Op("assign", c, "", blockTuple, NoArgs, Len(chains[c]))
    /\ UNCHANGED << flow, result, piped, values, outcome >>

\* chain = other   (operator=(const ExecutionChain&))
OpCopyAssign(c, d) ==
    /\ c # d
    /\ Len(chains[d]) <= Cardinality(FreeAddrs(heap)) + Len(chains[c])
    /\ Put(c, copy_assign(StoreOf(c), chains[d]))
    /\ appended' = [appended EXCEPT ![c] = appended[d]]
    /\ origin' = [origin EXCEPT ![c] = "copy"]
    /\ last' = Op("copy_assign", c, d, start_chain, NoArgs, Len(chains[c]))
    /\ UNCHANGED << blockTuple, flow, result, piped, values, outcome >>

\* chain = {}   (move assignment from an empty temporary chain)
OpClear(c) ==
    /\ chains[c] # << >>
    /\ Put(c, move_assign(StoreOf(c), << >>))
    /\ appended' = [appended EXCEPT ![c] = << >>]
    /\ origin' = [origin EXCEPT ![c] = "emptied"]
    /\ last' = Op("clear", c, "", start_chain, NoArgs, Len(chains[c]))
    /\ UNCHANGED << blockTuple, flow, result, piped, values, outcome >>

\* x = v.a; y = v.b; chain(x, y)
OpExecute(c, v) ==
    LET r == Execute(heap, chains[c], v)
    IN  /\ heap' = r.heap
        /\ args' = r.args
        /\ log' = r.log
        /\ outcome' = IF r.thrown THEN "exception" ELSE "ok"
        /\ last' = Op("Execute", c, "", start_chain, v, Len(chains[c]))
        /\ UNCHANGED << chains, blockTuple, flow, result, appended, origin,
                        piped, values >>

\* the named sequence becomes  blockTuple | action
OpPipe(a) ==
    /\ Len(blockTuple.m_actions) < MaxTuple
    /\ blockTuple' = BlockTuple(Append(blockTuple.m_actions, a))
    /\ args' = NoArgs
    /\ log' = << >>
    /\ last' = Op("pipe", "", "", a, NoArgs, 0)
    /\ UNCHANGED << heap, chains, flow, result, appended, origin,
                    piped, values, outcome >>

\* x = v.a; y = v.b; blockTuple(x, y)
OpTupleExecute(v) ==
    /\ blockTuple.m_actions # << >>
    /\ LET r == Invoke(blockTuple, v, 0)
       IN  /\ blockTuple' = r.act
           /\ args' = r.args
           /\ log' = r.log
           /\ outcome' = IF r.ret = "throw" THEN "exception" ELSE "ok"
    /\ last' = Op("TupleExecute", "", "", blockTuple, v, 0)
    /\ UNCHANGED << heap, chains, flow, result, appended, origin,
                    piped, values >>

(***************************************************************************)
(* Spec: one chain built from temporary actions and from the named         *)
(* sequence, and invoked.                                                  *)
(***************************************************************************)
\* the actions the caller appends
ActionPool == { Plain("Set12"), Plain("Dbl"), Plain("Fail"), Plain("Flip") }

\* the actions the caller pipes into the named sequence
TuplePool == { Plain("Fail"), IfThen(Plain("Gt"), Plain("Inc")) }

\* the argument values the caller invokes with
ArgInputs == { MkArgs(0, 0), MkArgs(3, 5) }

Next ==
    \/ \E a \in ActionPool : OpAppend("chain", a)
    \/ OpAppendTuple("chain")
    \/ \E a \in ActionPool : OpAssign("chain", a)
    \/ OpAssignTuple("chain")
    \/ OpClear("chain")
    \/ \E v \in ArgInputs : OpExecute("chain", v)
    \/ \E a \in TuplePool : OpPipe(a)
    \/ \E v \in ArgInputs : OpTupleExecute(v)

Spec == Init /\ [][Next]_vars

(***************************************************************************)
(* SpecCopy: two chains, copied into and appended to each other.           *)
(***************************************************************************)
\* the action the caller appends: a stateful one
CopyPool == { Plain("Flip") }

\* the sources the caller assigns: the action and the temporary sequence
\* start_chain | Fail | Flip
SourcePool == CopyPool \cup { BlockTuple(<< Plain("Fail"), Plain("Flip") >>) }

\* the argument values the caller invokes the two chains with
CopyInputs == { MkArgs(3, 5) }

NextCopy ==
    \/ \E c \in ChainNames, a \in CopyPool : OpAppend(c, a)
    \/ \E c, d \in ChainNames : OpAppendChain(c, d)
    \/ \E c \in ChainNames, a \in SourcePool : OpAssign(c, a)
    \/ \E c, d \in ChainNames : OpCopyAssign(c, d)
    \/ \E c \in ChainNames : OpClear(c)
    \/ \E c \in ChainNames, v \in CopyInputs : OpExecute(c, v)

SpecCopy == Init /\ [][NextCopy]_vars

(***************************************************************************)
(* SpecFlow: the caller builds a composite action with If/Then/Else or     *)
(* Try/Fallback and calls it directly.                                     *)
(***************************************************************************)
\* the predicates: Gt reads its arguments, Scan also writes them
PredicatePool == { Plain("Gt"), Plain("Scan") }

\* the then- and else-actions (called through a const Execute)
BranchPool ==
    { Plain("Set12"), Plain("Dbl"), Plain("Inc"), Plain("Fail"),
      IfThen(Plain("Gt"), Plain("Dbl")) }

\* the primary and fallback actions
TryPool ==
    { Plain("Set12"), Plain("Inc"), Plain("Fail"), Plain("Flip"),
      IfThen(Plain("Gt"), Plain("Fail")) }

\* the argument values the caller calls the composite action with
FlowInputs == { MkArgs(x, y) : x \in 0..(ArgMod - 1), y \in {0, 5} }

\* If(p)
OpIf(p) ==
    /\ flow' = If(p)
    /\ args' = NoArgs
    /\ log' = << >>
    /\ result' = "none"
    /\ last' = Op("If", "", "", p, NoArgs, 0)
    /\ UNCHANGED << heap, chains, blockTuple, appended, origin,
                    piped, values, outcome >>

\* flow.Then(t)
OpThen(t) ==
    /\ flow.kind = "If"
    /\ flow' = Then(flow, t)
    /\ last' = Op("Then", "", "", t, NoArgs, 0)
    /\ UNCHANGED << heap, chains, blockTuple, args, result, log, appended, origin,
                    piped, values, outcome >>

\* flow.Else(e)
OpElse(e) ==
    /\ flow.kind = "IfThen"
    /\ flow' = Else(flow, e)
    /\ args' = NoArgs
    /\ log' = << >>
    /\ result' = "none"
    /\ last' = Op("Else", "", "", e, NoArgs, 0)
    /\ UNCHANGED << heap, chains, blockTuple, appended, origin,
                    piped, values, outcome >>

\* Try(t)
OpTry(t) ==
    /\ flow' = Try(t)
    /\ args' = NoArgs
    /\ log' = << >>
    /\ result' = "none"
    /\ last' = Op("Try", "", "", t, NoArgs, 0)
    /\ UNCHANGED << heap, chains, blockTuple, appended, origin,
                    piped, values, outcome >>

\* flow.Fallback(f)
OpFallback(f) ==
    /\ flow.kind = "Try"
    /\ flow' = Fallback(flow, f)
    /\ last' = Op("Fallback", "", "", f, NoArgs, 0)
    /\ UNCHANGED << heap, chains, blockTuple, args, result, log, appended, origin,
                    piped, values, outcome >>

\* x = v.a; y = v.b; result = flow(x, y)
OpCall(v) ==
    /\ flow.kind \in {"IfThen", "IfThenElse", "TryFallback"}
    /\ LET r == Invoke(flow, v, 0)
       IN  /\ flow' = r.act
           /\ args' = r.args
           /\ result' = r.ret
           /\ log' = r.log
    /\ last' = Op("Call", "", "", flow, v, 0)
    /\ UNCHANGED << heap, chains, blockTuple, appended, origin,
                    piped, values, outcome >>

NextFlow ==
    \/ \E p \in PredicatePool : OpIf(p)
    \/ \E t \in BranchPool : OpThen(t)
    \/ \E e \in BranchPool : OpElse(e)
    \/ \E t \in TryPool : OpTry(t)
    \/ \E f \in TryPool : OpFallback(f)
    \/ \E v \in FlowInputs : OpCall(v)

SpecFlow == Init /\ [][NextFlow]_vars

(***************************************************************************)
(* SpecPipe: the caller composes sequences with | : the named sequence     *)
(* blockTuple is the left operand, piped takes the result.                 *)
(***************************************************************************)
\* what the caller's piped names after the compiler rejected its initializer
IllFormed == [kind |-> "ill-formed", m_actions |-> << >>]

\* the template arguments ActionsT... of a sequence: the types of its
\* elements, without their state
ActionsT(seq) == Labels(seq)

\* BlockTuple<ActionsT...> is BlockTuple<OtherActions...>: only then may the
\* member function of the one read the private m_actions of the other;
\* start_chain, a BlockTuple<void>, has no m_actions at all
SameSpecialization(lhs, other) ==
    /\ lhs.m_actions # << >>
    /\ other.m_actions # << >>
    /\ ActionsT(lhs) = ActionsT(other)

\* BlockTuple::operator|(OtherActionT&&), operator|(OtherActionT&) and the
\* two of BlockTuple<void>: a new BlockTuple built from copies of m_actions
\* and of the action; lhs is the left operand after the call
PipeAction(lhs, other) ==
    [lhs     |-> lhs,
     result  |-> BlockTuple(Append(lhs.m_actions, other)),
     outcome |-> "ok"]

\* BlockTuple::operator|(BlockTuple<OtherActions...>) and the one of
\* BlockTuple<void>: std::tuple_cat(m_actions, other.m_actions) where
\* other.m_actions is accessible, no program otherwise
PipeTuple(lhs, other) ==
    IF SameSpecialization(lhs, other)
    THEN [lhs     |-> lhs,
          result  |-> BlockTuple(lhs.m_actions \o other.m_actions),
          outcome |-> "ok"]
    ELSE [lhs |-> lhs, result |-> IllFormed, outcome |-> "ill-formed"]

\* auto piped = blockTuple | action
OpPipeAction(a) ==
    LET r == PipeAction(blockTuple, a)
    IN  /\ blockTuple' = r.lhs
        /\ piped' = r.result
        /\ outcome' = r.outcome
        /\ args' = NoArgs
        /\ log' = << >>
        /\ last' = Op("pipe_action", "", "", a, NoArgs, 0)
        /\ UNCHANGED << heap, chains, flow, result, appended, origin, values >>

\* auto piped = blockTuple | other
OpPipeTuple(other) ==
    LET r == PipeTuple(blockTuple, other)
    IN  /\ blockTuple' = r.lhs
        /\ piped' = r.result
        /\ outcome' = r.outcome
        /\ args' = NoArgs
        /\ log' = << >>
        /\ last' = Op("pipe_tuple", "", "", other, NoArgs, 0)
        /\ UNCHANGED << heap, chains, flow, result, appended, origin, values >>

\* x = v.a; y = v.b; piped(x, y)
OpPipedExecute(v) ==
    /\ piped.kind = "BlockTuple"
    /\ piped.m_actions # << >>
    /\ LET r == Invoke(piped, v, 0)
       IN  /\ piped' = r.act
           /\ args' = r.args
           /\ log' = r.log
    /\ outcome' = "ok"
    /\ last' = Op("PipedExecute", "", "", piped, v, 0)
    /\ UNCHANGED << heap, chains, blockTuple, flow, result, appended, origin,
                    values >>

\* the actions the caller pipes: one returning false, a stateful one
PipePool == { Plain("Fail"), Plain("Flip") }

\* the sequences the caller pipes into the named one, besides itself
PipeTuplePool ==
    { BlockTuple(<< Plain("Fail") >>),
      BlockTuple(<< Plain("Flip"), Plain("Fail") >>) }

NextPipe ==
    \/ \E a \in PipePool : OpPipe(a)
    \/ \E a \in PipePool : OpPipeAction(a)
    \/ \E s \in PipeTuplePool \cup ({blockTuple} \ {start_chain}) : OpPipeTuple(s)
    \/ \E v \in ArgInputs : OpTupleExecute(v)
    \/ \E v \in ArgInputs : OpPipedExecute(v)

SpecPipe == Init /\ [][NextPipe]_vars

(***************************************************************************)
(* SpecConcat: three chains; chain3 is built from chain and chain2 with    *)
(* operator|, and the sources are cleared and reassigned.                  *)
(***************************************************************************)
ConcatNames == ChainNames \cup {"chain3"}

\* room for three chains and for the temporaries of  a | b | c
ConcatAddr == 1..(MaxObj + MaxObj + 1)

\* faulty variant of operator|: output is the left operand itself
concat_inplace(h, lhs, rhs) == append_chain(Store(h, lhs), rhs)

\* operator|(LhsT&& lhs, RhsT&&... rhs):
\*   auto output = lhs; output.append(rhs...); return output;
concat(h, lhs, rhs) == append_chain(copy_construct(h, lhs), rhs)

\* a | b | c: (a | b) | c, the temporary a | b released at the end of the
\* full expression
concat3(h, a, b, c) ==
    LET t == concat(h, a, b)
        o == concat(t.heap, t.blocks, c)
    IN  Store(Release(o.heap, t.blocks), o.blocks)

\* faulty variant of the move: the source keeps its elements
moved_from_kept(bl) == bl

\* the vector a chain is left with after ExecutionChain(ExecutionChain&&) or
\* operator=(ExecutionChain&&) took its elements
moved_from(bl) == << >>

\* ExecutionChain(ExecutionChain&&): the new vector takes the elements
move_construct(h, rhs) == Store(h, rhs)

InitConcat ==
    /\ heap = [p \in ConcatAddr |-> FreeCell]
    /\ chains = [c \in ConcatNames |-> << >>]
    /\ blockTuple = start_chain
    /\ flow = start_chain
    /\ args = NoArgs
    /\ result = "none"
    /\ log = << >>
    /\ appended = [c \in ConcatNames |-> << >>]
    /\ origin = [c \in ConcatNames |-> "built"]
    /\ last = Op("init", "", "", start_chain, NoArgs, 0)
    /\ piped = start_chain
    /\ values = [n \in ValueNames |-> polymorphic_value(n)]
    /\ outcome = "ok"

\* the labels appended to the chains ds, one after the other
RECURSIVE AppendedAll(_)
AppendedAll(ds) ==
    IF ds = << >> THEN << >> ELSE appended[Head(ds)] \o AppendedAll(Tail(ds))

\* the number of blocks of the chains ds together
RECURSIVE LenAll(_)
LenAll(ds) == IF ds = << >> THEN 0 ELSE Len(chains[Head(ds)]) + LenAll(Tail(ds))

\* c = l | r   and   c = l | r | t
OpConcat(c, ds) ==
    /\ LenAll(ds) > 0
    /\ LenAll(ds) <= MaxObj
    /\ LenAll(ds) + (IF Len(ds) = 2 THEN 0 ELSE LenAll(SubSeq(ds, 1, 2)))
           <= Cardinality(FreeAddrs(heap))
    /\ LET o == IF Len(ds) = 2
                THEN concat(heap, chains[ds[1]], chains[ds[2]])
                ELSE concat3(heap, chains[ds[1]], chains[ds[2]], chains[ds[3]])
       IN  Put(c, move_assign(Store(o.heap, chains[c]), o.blocks))
    /\ appended' = [appended EXCEPT ![c] = AppendedAll(ds)]
    /\ origin' = [origin EXCEPT ![c] = "concat"]
    /\ last' = Op("concat", c, ds, start_chain, NoArgs, Len(chains[c]))
    /\ UNCHANGED << blockTuple, flow, result, piped, values, outcome >>

\* c = std::move(d)
OpMoveAssign(c, d) ==
    /\ c # d
    /\ chains[d] # << >>
    /\ LET st == move_assign(StoreOf(c), chains[d])
       IN  /\ heap' = st.heap
           /\ chains' = [chains EXCEPT ![c] = st.blocks,
                                       ![d] = moved_from(chains[d])]
    /\ args' = NoArgs
    /\ log' = << >>
    /\ appended' = [appended EXCEPT ![c] = appended[d], ![d] = << >>]
    /\ origin' = [origin EXCEPT ![c] = "moved", ![d] = "moved-from"]
    /\ last' = Op("move_assign", c, d, start_chain, NoArgs, Len(chains[c]))
    /\ UNCHANGED << blockTuple, flow, result, piped, values, outcome >>

\* ExecutionChain<...> c = std::move(d), c a new variable
OpMoveConstruct(c, d) ==
    /\ c # d
    /\ chains[c] = << >>
    /\ chains[d] # << >>
    /\ LET st == move_construct(heap, chains[d])
       IN  /\ heap' = st.heap
           /\ chains' = [chains EXCEPT ![c] = st.blocks,
                                       ![d] = moved_from(chains[d])]
    /\ args' = NoArgs
    /\ log' = << >>
    /\ appended' = [appended EXCEPT ![c] = appended[d], ![d] = << >>]
    /\ origin' = [origin EXCEPT ![c] = "moved", ![d] = "moved-from"]
    /\ last' = Op("move_construct", c, d, start_chain, NoArgs, 0)
    /\ UNCHANGED << blockTuple, flow, result, piped, values, outcome >>

\* pBlockTuple.reset(): the named sequence is destroyed
OpTupleReset ==
    /\ blockTuple # start_chain
    /\ blockTuple' = start_chain
    /\ args' = NoArgs
    /\ log' = << >>
    /\ last' = Op("reset_tuple", "", "", blockTuple, NoArgs, 0)
    /\ UNCHANGED << heap, chains, flow, result, appended, origin,
                    piped, values, outcome >>

\* auto pBlockTuple = start_chain | a: the named sequence is created
OpNameTuple(a) ==
    /\ blockTuple = start_chain
    /\ OpPipe(a)

\* the action the first source chain is built from
ConcatPool == { Plain("Flip") }

\* the operands of |
ConcatOperands ==
    { << "chain", "chain2" >>, << "chain2", "chain" >>,
      << "chain", "chain2", "chain" >> }

NextConcat ==
    \/ \E a \in ConcatPool : OpAssign("chain", a)
    \/ OpNameTuple(Plain("Fail"))
    \/ OpAssignTuple("chain2")
    \/ OpTupleReset
    \/ \E ds \in ConcatOperands : OpConcat("chain3", ds)
    \/ OpCopyAssign("chain3", "chain")
    \/ \E c \in ConcatNames : OpClear(c)
    \/ \E c \in ConcatNames, v \in CopyInputs : OpExecute(c, v)

SpecConcat == InitConcat /\ [][NextConcat]_vars

(***************************************************************************)
(* SpecMove: two chains are built by appending, and one is moved into the  *)
(* other.                                                                  *)
(***************************************************************************)
MovePool == { Plain("Flip"), Plain("Fail") }

NextMove ==
    \/ \E c \in ChainNames, a \in MovePool : OpAppend(c, a)
    \/ \E c, d \in ChainNames : OpMoveAssign(c, d)
    \/ \E c, d \in ChainNames : OpMoveConstruct(c, d)
    \/ \E c \in ChainNames : OpClear(c)
    \/ \E c \in ChainNames, v \in CopyInputs : OpExecute(c, v)

SpecMove == Init /\ [][NextMove]_vars

(***************************************************************************)
(* SpecThrow: a chain and a named sequence holding actions that can throw, *)
(* built and invoked.                                                      *)
(***************************************************************************)
\* the actions the caller appends: Boom throws when it finds a > 1
ThrowPool ==
    { Plain("Flip"), Plain("Boom"), TryFallback(Plain("Boom"), Plain("Inc")) }

\* the actions the caller pipes into the named sequence
ThrowTuplePool == { Plain("Boom"), Plain("Fail") }

NextThrow ==
    \/ \E a \in ThrowPool : OpAppend("chain", a)
    \/ OpAppendTuple("chain")
    \/ OpClear("chain")
    \/ \E v \in ArgInputs : OpExecute("chain", v)
    \/ \E a \in ThrowTuplePool : OpPipe(a)
    \/ \E v \in ArgInputs : OpTupleExecute(v)

SpecThrow == Init /\ [][NextThrow]_vars

(***************************************************************************)
(* SpecRef: the caller passes the named sequence blockTuple (an lvalue) to *)
(* Then or to Fallback.  Then_t / Fallback_t are deduced as a reference    *)
(* type, so the member m_then / m_fallback is a reference to blockTuple.   *)
(***************************************************************************)
\* a member of reference type, bound to the caller's blockTuple
Ref == [kind |-> "reference", to |-> "blockTuple"]

\* the action a member denotes when it is called
Deref(member) == IF member = Ref THEN blockTuple ELSE member

\* the composite action with its reference members replaced by what they
\* denote
Resolve(f) ==
    CASE f.kind = "IfThen"      -> [f EXCEPT !.m_then = Deref(@)]
      [] f.kind = "TryFallback" -> [f EXCEPT !.m_fallback = Deref(@)]
      [] OTHER                  -> f

\* the sequence blockTuple after the call f(v): the call of a reference
\* member acts on blockTuple itself
Referent(f, v) ==
    CASE f.kind = "IfThen" /\ f.m_then = Ref ->
            LET p == Invoke(f.m_predicate, v, 1)
            IN  IF p.ret = "true" THEN Invoke(blockTuple, p.args, 1).act
                ELSE blockTuple
      [] f.kind = "TryFallback" /\ f.m_fallback = Ref ->
            LET t == Call(f.m_try, v, 1)
            IN  IF t.ret = "false" THEN Invoke(blockTuple, t.args, 1).act
                ELSE blockTuple
      [] OTHER -> blockTuple

\* the composite action after a call left the resolved action r: the value
\* members keep their new state, a reference member stays bound
Rebind(f, r) ==
    CASE f.kind = "IfThen"      -> f
      [] f.kind = "TryFallback" ->
            IF f.m_fallback = Ref THEN [r EXCEPT !.m_fallback = Ref] ELSE r
      [] OTHER                  -> r

\* flow.Then(blockTuple)
OpThenNamed ==
    /\ flow.kind = "If"
    /\ blockTuple # start_chain
    /\ flow' = Then(flow, Ref)
    /\ last' = Op("ThenNamed", "", "", blockTuple, NoArgs, 0)
    /\ UNCHANGED << heap, chains, blockTuple, args, result, log, appended, origin,
                    piped, values, outcome >>

\* flow.Fallback(blockTuple)
OpFallbackNamed ==
    /\ flow.kind = "Try"
    /\ blockTuple # start_chain
    /\ flow' = Fallback(flow, Ref)
    /\ last' = Op("FallbackNamed", "", "", blockTuple, NoArgs, 0)
    /\ UNCHANGED << heap, chains, blockTuple, args, result, log, appended, origin,
                    piped, values, outcome >>

\* x = v.a; y = v.b; result = flow(x, y), flow holding value members and
\* reference members
OpCallBound(v) ==
    /\ flow.kind \in {"IfThen", "TryFallback"}
    /\ LET r == Invoke(Resolve(flow), v, 0)
       IN  /\ flow' = Rebind(flow, r.act)
           /\ blockTuple' = Referent(flow, v)
           /\ args' = r.args
           /\ result' = r.ret
           /\ log' = r.log
    /\ last' = Op("Call", "", "", flow, v, 0)
    /\ UNCHANGED << heap, chains, appended, origin, piped, values, outcome >>

\* the actions of the named sequence, the temporaries passed to Then and
\* Fallback, and the primary actions
RefPool == { Plain("Flip"), Plain("Inc") }

RefInputs == { MkArgs(0, 0), MkArgs(3, 5) }

NextRef ==
    \/ \E a \in RefPool : OpNameTuple(a)
    \/ OpIf(Plain("Gt"))
    \/ \E t \in RefPool : OpThen(t)
    \/ OpThenNamed
    \/ OpTry(Plain("Fail"))
    \/ \E f \in RefPool : OpFallback(f)
    \/ OpFallbackNamed
    \/ \E v \in RefInputs : OpCallBound(v)
    \/ \E v \in RefInputs : OpTupleExecute(v)

SpecRef == Init /\ [][NextRef]_vars

(***************************************************************************)
(* SpecNamed: a chain built from the named sequence blockTuple (an lvalue) *)
(* whose elements include an action with a non-trivial move.               *)
(***************************************************************************)
\* the actions the caller pipes into the named sequence
NamedPool == { Tag, Plain("Inc") }

NextNamed ==
    \/ \E a \in NamedPool : OpPipe(a)
    \/ OpTupleReset
    \/ OpAppendTuple("chain")
    \/ OpAssignTuple("chain")
    \/ \E a \in NamedPool : OpAppend("chain", a)
    \/ OpClear("chain")
    \/ \E v \in ArgInputs : OpExecute("chain", v)
    \/ \E v \in ArgInputs : OpTupleExecute(v)

SpecNamed == Init /\ [][NextNamed]_vars

(***************************************************************************)
(* SpecSelf: a chain appended to itself.  The range insert is called with  *)
(* iterators into the vector itself, which std::vector does not allow:     *)
(* what happens depends on whether the vector has to reallocate.  After    *)
(* undefined behaviour the program does not go on.                         *)
(***************************************************************************)
\* chain |= chain  and  chain.append(chain): fits tells whether
\* capacity() - size() >= size(), a matter of the vector's growth policy and
\* of its history; if not, the elements are moved to the new storage before
\* the range, now of moved-from elements, is copied
OpAppendSelf(c, fits) ==
    /\ outcome = "ok"
    /\ chains[c] # << >>
    /\ Len(chains[c]) + Len(chains[c]) <= MaxBlocks
    /\ Len(chains[c]) <= Cardinality(FreeAddrs(heap))
    /\ IF fits
       THEN /\ Put(c, append_chain(StoreOf(c), chains[c]))
            /\ appended' = [appended EXCEPT ![c] = @ \o appended[c]]
            /\ outcome' = "ok"
       ELSE /\ outcome' = "undefined"
            /\ UNCHANGED << heap, chains, args, log, appended >>
    /\ origin' = [origin EXCEPT ![c] = "built"]
    /\ last' = Op("append_self", c, c, start_chain, NoArgs, Len(chains[c]))
    /\ UNCHANGED << blockTuple, flow, result, piped, values >>

\* chain |= action, while the program runs
OpSelfAppend(c, a) == outcome = "ok" /\ OpAppend(c, a)

\* chain = {}, while the program runs
OpSelfClear(c) == outcome = "ok" /\ OpClear(c)

\* chain(x, y), while the program runs
OpSelfExecute(c, v) == outcome = "ok" /\ OpExecute(c, v)

SelfPool == { Plain("Flip"), Plain("Fail") }

NextSelf ==
    \/ \E c \in ChainNames, a \in SelfPool : OpSelfAppend(c, a)
    \/ \E c \in ChainNames, fits \in BOOLEAN : OpAppendSelf(c, fits)
    \/ \E c \in ChainNames : OpSelfClear(c)
    \/ \E c \in ChainNames, v \in ArgInputs : OpSelfExecute(c, v)

SpecSelf == Init /\ [][NextSelf]_vars

(***************************************************************************)
(* SpecForward: the named sequence invoked with a temporary vector as      *)
(* first argument.  BlockTuple::Execute passes std::forward<ArgsT>(args)   *)
(* to every element of the fold, so each element is called with an rvalue. *)
(***************************************************************************)
\* the action takes its first parameter by value: called with an rvalue,
\* the parameter is move-constructed and the argument is left empty
Consumes(act) == act.kind = "plain" /\ act.id = "Take"

\* the fold of BlockTuple::Execute(ArgsT&&...) called with an rvalue first
\* argument: (std::invoke(actions, std::forward<ArgsT>(args)...), ...)
RECURSIVE ForwardAll(_, _, _)
ForwardAll(s, v, d) ==
    IF s = << >>
    THEN [acts |-> << >>, args |-> v, log |-> << >>, thrown |-> FALSE]
    ELSE LET h    == Invoke(Head(s), v, d)
             left == IF Consumes(Head(s)) THEN [h.args EXCEPT !.a = 0]
                     ELSE h.args
             r    == IF h.ret = "throw"
                     THEN [acts |-> Tail(s), args |-> left, log |-> << >>,
                           thrown |-> TRUE]
                     ELSE ForwardAll(Tail(s), left, d)
         IN  [acts |-> << h.act >> \o r.acts, args |-> r.args,
              log |-> h.log \o r.log, thrown |-> r.thrown]

\* y = v.b; blockTuple(std::vector<int>(v.a), y)
OpTupleExecuteRvalue(v) ==
    /\ blockTuple.m_actions # << >>
    /\ LET r == ForwardAll(blockTuple.m_actions, v, 0)
       IN  /\ blockTuple' = [blockTuple EXCEPT !.m_actions = r.acts]
           /\ args' = r.args
           /\ log' = r.log
           /\ outcome' = IF r.thrown THEN "exception" ELSE "ok"
    /\ last' = Op("TupleExecuteRvalue", "", "", blockTuple, v, 0)
    /\ UNCHANGED << heap, chains, flow, result, appended, origin,
                    piped, values >>

\* the elements of the sequence: both only read the vector
ForwardPool == { Plain("Take"), Plain("Peek") }

\* the size of the vector and the value of y
ForwardInputs == { MkArgs(x, y) : x \in 1..3, y \in {0, 1, 5} }

NextForward ==
    \/ \E a \in ForwardPool : OpPipe(a)
    \/ OpTupleReset
    \/ \E v \in ForwardInputs : OpTupleExecute(v)
    \/ \E v \in ForwardInputs : OpTupleExecuteRvalue(v)

SpecForward == Init /\ [][NextForward]_vars

(***************************************************************************)
(* polymorphic_value<T> over the classes More : Derived : Base.  The       *)
(* control blocks live on the heap; an object is owned by the direct or    *)
(* pointer control block that holds it and is identified by that block's   *)
(* address.  An object is its dynamic type and the member v of Base.       *)
(***************************************************************************)
Types == {"Base", "Derived", "More"}

\* std::is_convertible<U*, T*>, for More : Derived : Base
ConvertibleTo(U, T) ==
    \/ U = T
    \/ (U = "Derived" /\ T = "Base")
    \/ (U = "More" /\ T \in {"Base", "Derived"})

\* is_child_of_v<Child, Parent>
is_child_of_v(Child, Parent) == Child # Parent /\ ConvertibleTo(Child, Parent)

\* the values of the member v
ObjValues == 0..1

Object(type, v) == [type |-> type, v |-> v]

\* what a null pointer points to
NullObject == Object("void", 0)

\* a heap with one control block pointer: what make_unique returns
Owned(h, cb) == [heap |-> h, cb |-> cb]

\* std::make_unique<Block>(...)
make_unique(h, cell) == Owned([h EXCEPT ![NewAddr(h)] = cell], NewAddr(h))

\* direct_control_block<T, U>: the object is the member u_, a U
direct_control_block(U, v) ==
    [kind |-> "direct_control_block", U |-> U, obj |-> Object(U, v)]

\* pointer_control_block<T, U, Copier, Deleter>: p_ points to the object
pointer_control_block(U, obj, C, D) ==
    [kind |-> "pointer_control_block", U |-> U, obj |-> obj,
     copier |-> C, deleter |-> D]

\* delegating_control_block<T, U>: delegate_ owns a control_block<U>
delegating_control_block(b) ==
    [kind |-> "delegating_control_block", delegate_ |-> b]

\* default_copy<U>::operator(): new U(t), a U whatever t's dynamic type
default_copy(U, t) == Object(U, t.v)

\* a copier supplied by the caller: it reproduces the dynamic type
custom_copy(U, t) == Object(t.type, t.v)

\* Copier::operator()(*p_)
Copy(cell) ==
    IF cell.copier = "default_copy"
    THEN default_copy(cell.U, cell.obj)
    ELSE custom_copy(cell.U, cell.obj)

\* the control blocks a block owns, itself included; Null owns nothing
RECURSIVE BlocksOf(_, _)
BlocksOf(h, p) ==
    IF p = Null THEN {}
    ELSE IF h[p].kind = "delegating_control_block"
         THEN {p} \cup BlocksOf(h, h[p].delegate_)
         ELSE {p}

\* cb_.reset() / ~unique_ptr: the block and what it owns are destroyed
reset(h, p) == [q \in DOMAIN h |-> IF q \in BlocksOf(h, p) THEN FreeCell ELSE h[q]]

\* control_block::ptr(): the address of the object; Null when a delegating
\* block has no delegate
RECURSIVE ptr(_, _)
ptr(h, p) ==
    IF p = Null THEN Null
    ELSE IF h[p].kind = "delegating_control_block"
         THEN ptr(h, h[p].delegate_)
         ELSE p

\* control_block::clone() of the block at p, which holds an object
RECURSIVE cb_clone(_, _)
cb_clone(h, p) ==
    CASE h[p].kind = "direct_control_block" -> make_unique(h, h[p])
      [] h[p].kind = "pointer_control_block" ->
            make_unique(h, [h[p] EXCEPT !.obj = Copy(h[p])])
      [] OTHER ->
            LET inner == cb_clone(h, h[p].delegate_)
            IN  make_unique(inner.heap, delegating_control_block(inner.cb))

\* polymorphic_value::operator bool
Valid(pv) == pv.cb_ # Null

\* polymorphic_value::get(): the address of the held object or Null
get(h, pv) == IF pv.cb_ # Null THEN ptr(h, pv.cb_) ELSE Null

\* the container holds an object: it is not empty and its block chain ends
\* in a block with an object
Holds(h, pv) == get(h, pv) # Null

\* the held object
HeldObject(h, pv) == h[get(h, pv)].obj

\* the number of cells clone() of the block at p allocates
CloneSize(h, p) == Cardinality(BlocksOf(h, p))

(***************************************************************************)
(* Construction, copy, move and conversion of containers.  Each returns    *)
(* the heap, the control block of the new container and the outcome.       *)
(***************************************************************************)
Built(h, cb, out) == [heap |-> h, cb |-> cb, outcome |-> out]

BadConstruction == "bad_polymorphic_value_construction"

\* faulty variant of the check: the deleter is not looked at
Mismatch_anyDeleter(U, u, C, D) == C = "default_copy" /\ u.type # U

\* std::is_same<D, default_delete<U>> && std::is_same<C, default_copy<U>>
\*   && typeid(*u) != typeid(U)
Mismatch(U, u, C, D) ==
    D = "default_delete" /\ C = "default_copy" /\ u.type # U

\* an object allocated with new that no unique_ptr and no control block
\* holds
allocation(u) == [kind |-> "allocation", obj |-> u]

\* the constructor throws before a unique_ptr holds u: the object stays
\* allocated
abandoned(h, u) == make_unique(h, allocation(u)).heap

\* polymorphic_value(U*&& u, C copier, D deleter); u is the object pointed
\* to, NullObject for a null pointer
pointer_construct(h, U, u, C, D) ==
    IF u = NullObject THEN Built(h, Null, "ok")
    ELSE IF Mismatch(U, u, C, D)
    THEN Built(abandoned(h, u), Null, BadConstruction)
    ELSE LET st == make_unique(h, pointer_control_block(U, u, C, D))
         IN  Built(st.heap, st.cb, "ok")

\* polymorphic_value(std::unique_ptr<U, D> u, C copier): the parameter u
\* deletes the object when the constructor throws
unique_ptr_construct(h, U, u, C, D) ==
    IF u = NullObject THEN Built(h, Null, "ok")
    ELSE IF Mismatch(U, u, C, D) THEN Built(h, Null, BadConstruction)
    ELSE LET st == make_unique(h, pointer_control_block(U, u, C, D))
         IN  Built(st.heap, st.cb, "ok")

\* polymorphic_value(U&& u) and polymorphic_value(const U& u): u refers to
\* the object; the block holds a U copied from it
value_construct(h, U, u) ==
    IF u.type # U THEN Built(h, Null, BadConstruction)
    ELSE LET st == make_unique(h, direct_control_block(U, u.v))
         IN  Built(st.heap, st.cb, "ok")

\* polymorphic_value(const polymorphic_value& p)
value_copy(h, p) ==
    IF Valid(p) THEN cb_clone(h, p.cb_) ELSE Owned(h, Null)

\* polymorphic_value(const polymorphic_value<U>& p): a delegating block
\* over the control block of a temporary copy of p
convert_copy(h, p) ==
    LET tmp == value_copy(h, p)
    IN  make_unique(tmp.heap, delegating_control_block(tmp.cb))

\* faulty variant of the move: the control block is not handed over
moved_cb_lost(h, p) == Owned(h, Null)

\* std::move(p.cb_): the control block of p changes owner
moved_cb(h, p) == Owned(h, p.cb_)

\* polymorphic_value(polymorphic_value<U>&& p): a delegating block over
\* p's own control block
convert_move(h, p) ==
    LET m == moved_cb(h, p)
    IN  make_unique(m.heap, delegating_control_block(m.cb))

\* copying the container p runs into a delegating block without delegate
CloneUndefined(h, p) == Valid(p) /\ ~Holds(h, p)

\* the cells free in h are enough for k new blocks
Room(h, k) == Cardinality(FreeAddrs(h)) >= k

(***************************************************************************)
(* The operations a caller applies to the named containers.  outcome is    *)
(* how the last operation ended; after an assertion failure or undefined   *)
(* behaviour the program does not go on.                                   *)
(***************************************************************************)
Running == outcome \in {"ok", BadConstruction}

ValueFrame ==
    UNCHANGED << chains, blockTuple, flow, args, log, appended, origin, piped >>

\* the container n takes the control block cb
SetCb(n, cb) == values' = [values EXCEPT ![n].cb_ = cb]

\* the record of an operation on containers
ValueOp(op, n, m, input) == Op(op, n, m, input, NoArgs, 0)

\* polymorphic_value<T> n(u): u a U& to an object of dynamic type dyn
OpValueConstruct(n, U, u) ==
    /\ Running
    /\ ~Valid(values[n])
    /\ ConvertibleTo(U, values[n].T)
    /\ ConvertibleTo(u.type, U)
    /\ Room(heap, 1)
    /\ LET b == value_construct(heap, U, u)
       IN  /\ heap' = b.heap
           /\ SetCb(n, b.cb)
           /\ outcome' = b.outcome
    /\ result' = "none"
    /\ last' = ValueOp("value_construct", n, "",
                       [U |-> U, u |-> u, copier |-> "default_copy",
                        deleter |-> "default_delete"])
    /\ ValueFrame

\* polymorphic_value<T> n(std::move(p), copier, deleter) with U* p, and
\* polymorphic_value<T> n(std::move(up), copier) with unique_ptr<U, D> up
OpPointerConstruct(n, form, U, u, C, D) ==
    /\ Running
    /\ ~Valid(values[n])
    /\ ConvertibleTo(U, values[n].T)
    /\ u # NullObject => ConvertibleTo(u.type, U)
    /\ Room(heap, 1)
    /\ LET b == IF form = "pointer"
                THEN pointer_construct(heap, U, u, C, D)
                ELSE unique_ptr_construct(heap, U, u, C, D)
       IN  /\ heap' = b.heap
           /\ SetCb(n, b.cb)
           /\ outcome' = b.outcome
    /\ result' = "none"
    /\ last' = ValueOp(form \o "_construct", n, "",
                       [U |-> U, u |-> u, copier |-> C, deleter |-> D])
    /\ ValueFrame

\* polymorphic_value<T> n(m), n and m of the same T
OpValueCopyConstruct(n, m) ==
    /\ Running
    /\ n # m
    /\ values[n].T = values[m].T
    /\ ~Valid(values[n])
    /\ Room(heap, CloneSize(heap, values[m].cb_))
    /\ IF CloneUndefined(heap, values[m])
       THEN outcome' = "undefined" /\ UNCHANGED << heap, values >>
       ELSE LET st == value_copy(heap, values[m])
            IN  heap' = st.heap /\ SetCb(n, st.cb) /\ outcome' = "ok"
    /\ result' = "none"
    /\ last' = ValueOp("value_copy_construct", n, m, start_chain)
    /\ ValueFrame

\* n = m, n and m of the same T
OpValueCopyAssign(n, m) ==
    /\ Running
    /\ values[n].T = values[m].T
    /\ Room(heap, CloneSize(heap, values[m].cb_))
    /\ IF n = m
       THEN outcome' = "ok" /\ UNCHANGED << heap, values >>
       ELSE IF ~Valid(values[m])
       THEN /\ heap' = reset(heap, values[n].cb_)
            /\ SetCb(n, Null)
            /\ outcome' = "ok"
       ELSE IF CloneUndefined(heap, values[m])
       THEN outcome' = "undefined" /\ UNCHANGED << heap, values >>
       ELSE LET st == cb_clone(heap, values[m].cb_)
            IN  /\ heap' = reset(st.heap, values[n].cb_)
                /\ SetCb(n, st.cb)
                /\ outcome' = "ok"
    /\ result' = "none"
    /\ last' = ValueOp("value_copy_assign", n, m, start_chain)
    /\ ValueFrame

\* polymorphic_value<T> n(std::move(m)), n and m of the same T
OpValueMoveConstruct(n, m) ==
    /\ Running
    /\ n # m
    /\ values[n].T = values[m].T
    /\ ~Valid(values[n])
    /\ LET st == moved_cb(heap, values[m])
       IN  /\ heap' = st.heap
           /\ values' = [values EXCEPT ![n].cb_ = st.cb, ![m].cb_ = Null]
    /\ outcome' = "ok"
    /\ result' = "none"
    /\ last' = ValueOp("value_move_construct", n, m, start_chain)
    /\ ValueFrame

\* n = std::move(m), n and m of the same T
OpValueMoveAssign(n, m) ==
    /\ Running
    /\ n # m
    /\ values[n].T = values[m].T
    /\ LET st == moved_cb(heap, values[m])
       IN  /\ heap' = reset(st.heap, values[n].cb_)
           /\ values' = [values EXCEPT ![n].cb_ = st.cb, ![m].cb_ = Null]
    /\ outcome' = "ok"
    /\ result' = "none"
    /\ last' = ValueOp("value_move_assign", n, m, start_chain)
    /\ ValueFrame

\* polymorphic_value<T> n(m), m a container of a class derived from T
OpConvertCopyConstruct(n, m) ==
    /\ Running
    /\ is_child_of_v(values[m].T, values[n].T)
    /\ ~Valid(values[n])
    /\ Room(heap, CloneSize(heap, values[m].cb_) + 1)
    /\ IF CloneUndefined(heap, values[m])
       THEN outcome' = "undefined" /\ UNCHANGED << heap, values >>
       ELSE LET st == convert_copy(heap, values[m])
            IN  heap' = st.heap /\ SetCb(n, st.cb) /\ outcome' = "ok"
    /\ result' = "none"
    /\ last' = ValueOp("convert_copy_construct", n, m, start_chain)
    /\ ValueFrame

\* polymorphic_value<T> n(std::move(m)), m a container of a class derived
\* from T
OpConvertMoveConstruct(n, m) ==
    /\ Running
    /\ is_child_of_v(values[m].T, values[n].T)
    /\ ~Valid(values[n])
    /\ Room(heap, 1)
    /\ LET st == convert_move(heap, values[m])
       IN  /\ heap' = st.heap
           /\ values' = [values EXCEPT ![n].cb_ = st.cb, ![m].cb_ = Null]
    /\ outcome' = "ok"
    /\ result' = "none"
    /\ last' = ValueOp("convert_move_construct", n, m, start_chain)
    /\ ValueFrame

\* n = m, m a container of a class derived from T
OpConvertCopyAssign(n, m) ==
    /\ Running
    /\ is_child_of_v(values[m].T, values[n].T)
    /\ Room(heap, CloneSize(heap, values[m].cb_) + 1)
    /\ IF ~Valid(values[m])
       THEN /\ heap' = reset(heap, values[n].cb_)
            /\ SetCb(n, Null)
            /\ outcome' = "ok"
       ELSE IF CloneUndefined(heap, values[m])
       THEN outcome' = "undefined" /\ UNCHANGED << heap, values >>
       ELSE LET cl == cb_clone(heap, values[m].cb_)
                st == make_unique(cl.heap, delegating_control_block(cl.cb))
            IN  /\ heap' = reset(st.heap, values[n].cb_)
                /\ SetCb(n, st.cb)
                /\ outcome' = "ok"
    /\ result' = "none"
    /\ last' = ValueOp("convert_copy_assign", n, m, start_chain)
    /\ ValueFrame

\* n = std::move(m), m a container of a class derived from T
OpConvertMoveAssign(n, m) ==
    /\ Running
    /\ is_child_of_v(values[m].T, values[n].T)
    /\ Room(heap, 1)
    /\ IF ~Valid(values[m])
       THEN /\ heap' = reset(heap, values[n].cb_)
            /\ SetCb(n, Null)
       ELSE LET st == convert_move(heap, values[m])
            IN  /\ heap' = reset(st.heap, values[n].cb_)
                /\ values' = [values EXCEPT ![n].cb_ = st.cb, ![m].cb_ = Null]
    /\ outcome' = "ok"
    /\ result' = "none"
    /\ last' = ValueOp("convert_move_assign", n, m, start_chain)
    /\ ValueFrame

\* n = nullptr, and the end of n's lifetime
OpAssignNull(n) ==
    /\ Running
    /\ Valid(values[n])
    /\ heap' = reset(heap, values[n].cb_)
    /\ SetCb(n, Null)
    /\ outcome' = "ok"
    /\ result' = "none"
    /\ last' = ValueOp("assign_nullptr", n, "", start_chain)
    /\ ValueFrame

\* the heap after  ++v  modulo the values of v  on the object held by pv
Written(h, pv) ==
    [h EXCEPT ![get(h, pv)].obj.v = (@ + 1) % Cardinality(ObjValues)]

\* what an access to the held object of the container pv ends in:
\*   operator->  { assert(get() != nullptr); return get(); }
\*   operator*   { return *get(); }      value()  { return *get(); }
\* ndebug tells whether the build defines NDEBUG
Access(h, pv, how, ndebug) ==
    IF get(h, pv) # Null THEN "ok"
    ELSE IF how = "operator->" /\ ~ndebug /\ ~Valid(pv) THEN "assertion-failure"
    ELSE IF ~Valid(pv) THEN "invalid-reference"
    ELSE "undefined"

\* ++n->v, ++(*n).v and ++n.value().v: the object is written when the
\* access returned it
OpAccess(n, how, ndebug) ==
    /\ Running
    /\ outcome' = Access(heap, values[n], how, ndebug)
    /\ heap' = IF Holds(heap, values[n])
               THEN Written(heap, values[n])
               ELSE heap
    /\ result' = "none"
    /\ last' = ValueOp(how, n, "", [ndebug |-> ndebug])
    /\ UNCHANGED values
    /\ ValueFrame

\* operator polymorphic_value<U>&(): the container p seen as a container
\* of its base class U, reinterpret_cast<polymorphic_value<U>&>(*this)
reference_conversion(p, U) == [p EXCEPT !.T = U]

\* [](polymorphic_value<Base>& p) { ++p->v; }(m), m a container of a
\* derived class
OpReferenceConversion(m, U) ==
    /\ Running
    /\ is_child_of_v(values[m].T, U)
    /\ Holds(heap, values[m])
    /\ LET p == reference_conversion(values[m], U)
       IN  /\ heap' = Written(heap, p)
           /\ last' = ValueOp("reference_conversion", "", m, p)
    /\ outcome' = "ok"
    /\ result' = "none"
    /\ UNCHANGED values
    /\ ValueFrame

\* the null marker as an operand of a comparison
NullPtr == [T |-> "nullptr_t", cb_ |-> Null]

\* the operand named x: a container or nullptr
Operand(x) == IF x = "nullptr" THEN NullPtr ELSE values[x]

\* polymorphic_value_detail::is_valid
is_valid(x) == x.T # "nullptr_t" /\ Valid(x)

\* the held objects' own operator==: Base::operator== compares v
ObjectEquals(a, b) == a.v = b.v

\* faulty variant of operator==: empty operands are unequal
Equals_strict(h, lhs, rhs) ==
    is_valid(lhs) /\ is_valid(rhs)
        /\ ObjectEquals(HeldObject(h, lhs), HeldObject(h, rhs))

\* operator==(L&& lhs, R&& rhs)
Equals(h, lhs, rhs) ==
    IF ~is_valid(lhs) /\ ~is_valid(rhs) THEN TRUE
    ELSE IF lhs.T = "nullptr_t" \/ rhs.T = "nullptr_t" THEN FALSE
    ELSE IF is_valid(lhs) /\ is_valid(rhs)
         THEN ObjectEquals(HeldObject(h, lhs), HeldObject(h, rhs))
         ELSE FALSE

\* operator!=(L&& lhs, R&& rhs)
NotEquals(h, lhs, rhs) == ~Equals(h, lhs, rhs)

\* value(lhs) == value(rhs) is evaluated on a container whose delegating
\* block has no delegate
CompareUndefined(h, lhs, rhs) ==
    /\ is_valid(lhs) /\ is_valid(rhs)
    /\ ~Holds(h, lhs) \/ ~Holds(h, rhs)

Text(b) == IF b THEN "true" ELSE "false"

\* l == r  and  l != r, at least one of them a container
OpCompare(op, l, r) ==
    /\ Running
    /\ l # "nullptr" \/ r # "nullptr"
    /\ IF CompareUndefined(heap, Operand(l), Operand(r))
       THEN outcome' = "undefined" /\ result' = "none"
       ELSE /\ outcome' = "ok"
            /\ result' = IF op = "operator=="
                         THEN Text(Equals(heap, Operand(l), Operand(r)))
                         ELSE Text(NotEquals(heap, Operand(l), Operand(r)))
    /\ last' = ValueOp(op, l, r, start_chain)
    /\ UNCHANGED << heap, values >>
    /\ ValueFrame

\* polymorphic_value(std::in_place_type_t<U>, Ts&&... ts) with the object u
\* as only argument: the block holds a remove_cvref_t<U> constructed from u
in_place_construct(h, U, u) == make_unique(h, direct_control_block(U, u.v))

\* make_polymorphic_value<T>(u): the block holds a T constructed from u
make_polymorphic_value(h, T, u) == make_unique(h, direct_control_block(T, u.v))

\* n = u, u a U& to an object that is no container and no pointer: a
\* temporary container is built in place (U is not T) or by
\* make_polymorphic_value (U is T) and move-assigned to n
OpValueAssign(n, U, u) ==
    /\ Running
    /\ ConvertibleTo(U, values[n].T)
    /\ ConvertibleTo(u.type, U)
    /\ Room(heap, 1)
    /\ LET tmp == IF U # values[n].T
                  THEN in_place_construct(heap, U, u)
                  ELSE make_polymorphic_value(heap, values[n].T, u)
       IN  /\ heap' = reset(tmp.heap, values[n].cb_)
           /\ SetCb(n, tmp.cb)
    /\ outcome' = "ok"
    /\ result' = "none"
    /\ last' = ValueOp("value_assign", n, "",
                       [U |-> U, u |-> u, copier |-> "default_copy",
                        deleter |-> "default_delete"])
    /\ ValueFrame

\* the arguments of the assignment of a value: the static type U and the
\* object referred to
AssignPool ==
    { << "Derived", Object("Derived", 1) >>, << "Derived", Object("More", 1) >>,
      << "Base", Object("Derived", 0) >> }

\* the arguments of the value constructor: the static type U and the
\* object referred to
ValuePool ==
    { << "Base", Object("Base", 0) >>, << "Derived", Object("Derived", 1) >>,
      << "Base", Object("Derived", 0) >> }

\* the arguments of the pointer and unique_ptr constructors: the form, the
\* static type U, the object pointed to, the copier and the deleter
PointerPool ==
    { << "pointer", "Base", Object("Derived", 0), "default_copy", "default_delete" >>,
      << "unique_ptr", "Base", Object("Derived", 0), "default_copy", "default_delete" >>,
      << "unique_ptr", "Base", Object("Derived", 0), "default_copy", "custom" >>,
      << "pointer", "Base", Object("Derived", 0), "custom", "default_delete" >>,
      << "pointer", "Derived", Object("Derived", 0), "default_copy", "default_delete" >>,
      << "unique_ptr", "Base", NullObject, "default_copy", "default_delete" >> }

\* the accesses: the container, the member used and whether the build
\* defines NDEBUG
AccessPool ==
    { << "b1", "operator->", FALSE >>, << "b1", "operator->", TRUE >>,
      << "b1", "operator*", FALSE >>, << "b1", "value", FALSE >>,
      << "b2", "operator->", FALSE >>, << "d1", "operator->", FALSE >> }

\* the operands of the comparisons
ComparePool ==
    { << "b1", "b2" >>, << "b1", "nullptr" >>, << "nullptr", "b1" >> }

\* destination and source of the copies and moves between containers of
\* one interface
SamePool == { << "b2", "b1" >>, << "b1", "b1" >> }

\* destination and source of the conversions
ConvertPool == { << "b1", "d1" >> }

NextValue ==
    \/ \E n \in {"b1", "d1"}, a \in ValuePool : OpValueConstruct(n, a[1], a[2])
    \/ \E a \in PointerPool :
          OpPointerConstruct("b1", a[1], a[2], a[3], a[4], a[5])
    \/ \E a \in SamePool : OpValueCopyConstruct(a[1], a[2])
    \/ \E a \in SamePool : OpValueCopyAssign(a[1], a[2])
    \/ \E a \in SamePool : OpValueMoveConstruct(a[1], a[2])
    \/ \E a \in SamePool : OpValueMoveAssign(a[1], a[2])
    \/ \E a \in ConvertPool : OpConvertCopyConstruct(a[1], a[2])
    \/ \E a \in ConvertPool : OpConvertMoveConstruct(a[1], a[2])
    \/ \E a \in ConvertPool : OpConvertCopyAssign(a[1], a[2])
    \/ \E a \in ConvertPool : OpConvertMoveAssign(a[1], a[2])
    \/ \E a \in AssignPool : OpValueAssign("b1", a[1], a[2])
    \/ \E n \in ValueNames : OpAssignNull(n)
    \/ \E a \in AccessPool : OpAccess(a[1], a[2], a[3])
    \/ \E m \in ValueNames : OpReferenceConversion(m, "Base")
    \/ \E op \in {"operator==", "operator!="}, a \in ComparePool :
          OpCompare(op, a[1], a[2])

SpecValue == Init /\ [][NextValue]_vars

\* ------------------------------------------------------------------------
\* Properties
\* ------------------------------------------------------------------------

\* the entries of a log at nesting depth d, in call order
AtDepth(l, d) == SelectSeq(l, LAMBDA e : e.depth = d)

\* the labels of the calls a chain or a sequence made itself, in call order
TopLabels(l) == [i \in 1..Len(AtDepth(l, 0)) |-> AtDepth(l, 0)[i].label]

\* the calls t ran one after another on the same argument instances: the
\* first saw v, each later one saw what its predecessor left, w is what the
\* last one left
Chained(t, v, w) ==
    IF t = << >>
    THEN w = v
    ELSE /\ t[1].in = v
         /\ \A k \in 1..(Len(t) - 1) : t[k + 1].in = t[k].out
         /\ w = t[Len(t)].out

\* the labels of the actions held by the blocks bl, in block order
RECURSIVE BlockLabels(_, _)
BlockLabels(h, bl) ==
    IF bl = << >>
    THEN << >>
    ELSE Labels(h[Head(bl)].m_action) \o BlockLabels(h, Tail(bl))

\* what a chain does when it is executed twice on each input: the arguments
\* left and the calls made
Behaviour(h, bl) ==
    [v \in CopyInputs |->
        LET r1 == Execute(h, bl, v)
            r2 == Execute(r1.heap, bl, v)
        IN  << r1.args, r1.log, r2.args, r2.log >>]

\* the heap of a program that holds the blocks bl only
Only(h, bl) ==
    [p \in Addr |-> IF \E i \in 1..Len(bl) : bl[i] = p THEN h[p] ELSE FreeCell]

\* detail::Call's reading of a recorded result
Bool(ret) == IF ret = "false" THEN "false" ELSE "true"

\* C1: executing a chain calls the appended actions in exactly the order in
\* which they were appended, first appended first, on the arguments the
\* caller supplied.
C1_AppendOrder ==
    last.op = "Execute" =>
        /\ TopLabels(log) = appended[last.c]
        /\ AtDepth(log, 0) # << >> => AtDepth(log, 0)[1].in = last.v

\* an execution of a chain of two blocks holding three actions
C1_Witness ==
    /\ last.op = "Execute"
    /\ Len(chains[last.c]) = 2
    /\ Len(appended[last.c]) = 3
    /\ Len(AtDepth(log, 0)) = 3
    /\ appended[last.c][1] # appended[last.c][3]

\* C2: a copy of a chain and the original are independent: appending to,
\* assigning, clearing or executing one of them leaves what the other does
\* when executed unchanged.
C2_DeepCopy ==
    [][\A d \in ChainNames :
          (last'.c # d /\ last'.op \in {"append", "append_chain", "assign",
                                         "copy_assign", "clear", "Execute"})
              => Behaviour(heap', chains'[d]) = Behaviour(heap, chains[d])]_vars

\* a copy holding a stateful action was executed while the original still
\* holds its blocks
C2_Witness ==
    /\ last.op = "Execute"
    /\ last.c = "chain2"
    /\ origin["chain2"] = "copy"
    /\ chains["chain"] # << >>
    /\ \E i \in 1..Len(chains["chain2"]) :
           /\ heap[chains["chain2"][i]].m_action = [Plain("Flip") EXCEPT !.x = 1]
           /\ i <= Len(chains["chain"])
           /\ heap[chains["chain"][i]].m_action = Plain("Flip")

\* C3: after assigning an action, a sequence or a chain to a chain, whatever
\* it held before, the chain behaves as a chain newly constructed from the
\* assigned value: no block it held before is called again.
C3_AssignReplaces ==
    [][/\ last'.op = "assign" =>
              Behaviour(heap', chains'[last'.c])
                  = LET f == construct(last'.a) IN Behaviour(f.heap, f.blocks)
       /\ last'.op = "copy_assign" =>
              Behaviour(heap', chains'[last'.c])
                  = LET src == chains[last'.d]
                        f   == copy_construct(Only(heap, src), src)
                    IN  Behaviour(f.heap, f.blocks)]_vars

\* a sequence was assigned to a chain that held blocks
C3_Witness ==
    /\ last.op = "assign"
    /\ last.held > 0
    /\ last.a.kind = "BlockTuple"
    /\ Len(chains[last.c]) = 1

\* C4: executing a chain that holds no block, default-constructed or
\* emptied by assigning {}, calls nothing and leaves the arguments as they
\* were.
C4_EmptyNoOp ==
    /\ \A c \in ChainNames :
           appended[c] = << >> =>
               \A v \in ArgValues :
                   LET r == Execute(heap, chains[c], v)
                   IN  r.args = v /\ r.log = << >> /\ r.heap = heap
    /\ (last.op = "Execute" /\ appended[last.c] = << >>) =>
           args = last.v /\ log = << >>

\* an emptied chain was executed on arguments other than the initial ones
C4_Witness ==
    /\ last.op = "Execute"
    /\ origin[last.c] = "emptied"
    /\ last.v # NoArgs
    /\ args = last.v

\* C5: an execution of a chain calls every block of the chain, whatever the
\* blocks called before returned.
C5_NoShortCircuit ==
    last.op = "Execute" =>
        /\ TopLabels(log) = BlockLabels(heap, chains[last.c])
        /\ \A k \in 1..Len(AtDepth(log, 0)) :
               (AtDepth(log, 0)[k].ret = "false"
                    /\ k < Len(BlockLabels(heap, chains[last.c])))
                   => Len(AtDepth(log, 0)) > k

\* the first block of an executed chain returned false and a block was
\* called after it
C5_Witness ==
    /\ last.op = "Execute"
    /\ Len(chains[last.c]) = 2
    /\ heap[chains[last.c][1]].m_action = Plain("Fail")
    /\ Len(AtDepth(log, 0)) = 2
    /\ AtDepth(log, 0)[1].ret = "false"

\* C6: the actions of a chain or of a sequence run on the same argument
\* instances: each sees what its predecessors left and the caller sees what
\* the last one left; a chain that sets (a, b) to (1, 2) and then doubles
\* both leaves (2, 4).
C6_SharedArguments ==
    /\ last.op \in {"Execute", "TupleExecute"} =>
           Chained(AtDepth(log, 0), last.v, args)
    /\ (last.op = "Execute"
            /\ TopLabels(log) = << << "Set12" >>, << "Dbl" >> >>) =>
           args = MkArgs(2, 4)

\* the chain Set12 | Dbl was executed on (0, 0) and left (2, 4)
C6_Witness ==
    /\ last.op = "Execute"
    /\ last.v = MkArgs(0, 0)
    /\ TopLabels(log) = << << "Set12" >>, << "Dbl" >> >>
    /\ args = MkArgs(2, 4)

\* the result of the predicate of the flow called last
PredicateOf(f, v) == Invoke(f.m_predicate, v, 1)

\* what an action alone leaves of the arguments v
Alone(act, v) == Invoke(act, v, 1).args

\* the last operation called an if-then or an if-then-else
CalledIf == last.op = "Call" /\ last.a.kind \in {"IfThen", "IfThenElse"}

\* C7 as stated: If(P).Then(T).Else(E) has the same effect on the arguments
\* as T alone when P is true and as E alone when P is false; If(P).Then(T)
\* has no effect when P is false.
C7_AsStated ==
    CalledIf =>
        LET f == last.a
        IN  IF PredicateOf(f, last.v).ret = "true"
            THEN args = Alone(f.m_then, last.v)
            ELSE IF f.kind = "IfThenElse"
                 THEN args = Alone(f.m_elseThen, last.v)
                 ELSE args = last.v

\* C7: If(P).Then(T).Else(E) calls P and then exactly one of T and E, T when
\* P is true and E when it is false, on the arguments as P left them;
\* If(P).Then(T) calls nothing after a false P.  When P leaves the arguments
\* unchanged the effect is that of T alone, of E alone, or none.
C7_BranchEffect ==
    CalledIf =>
        LET f     == last.a
            p     == PredicateOf(f, last.v)
            calls == AtDepth(log, 1)
        IN  /\ calls[1].label = Label(f.m_predicate)
            /\ IF p.ret = "true"
               THEN /\ Len(calls) = 2
                    /\ calls[2].label = Label(f.m_then)
                    /\ args = Alone(f.m_then, p.args)
               ELSE IF f.kind = "IfThenElse"
                    THEN /\ Len(calls) = 2
                         /\ calls[2].label = Label(f.m_elseThen)
                         /\ args = Alone(f.m_elseThen, p.args)
                    ELSE /\ Len(calls) = 1
                         /\ args = p.args
            /\ p.args = last.v => C7_AsStated

\* an if-then-else whose predicate changed the arguments took its else
\* branch
C7_Witness ==
    /\ CalledIf
    /\ last.a.kind = "IfThenElse"
    /\ last.a.m_then # last.a.m_elseThen
    /\ PredicateOf(last.a, last.v).args # last.v
    /\ PredicateOf(last.a, last.v).ret = "false"
    /\ args # last.v

\* C8: an if-then or if-then-else returns true when the branch taken
\* returns nothing, the boolean of the branch taken when it returns one, and
\* true when the predicate is false and there is no else branch.
C8_BranchResult ==
    CalledIf =>
        LET f     == last.a
            calls == AtDepth(log, 1)
        IN  IF calls[1].ret = "true"
            THEN /\ calls[2].label = Label(f.m_then)
                 /\ result = Bool(calls[2].ret)
                 /\ calls[2].ret = "void" => result = "true"
            ELSE IF f.kind = "IfThen"
                 THEN Len(calls) = 1 /\ result = "true"
                 ELSE /\ calls[2].label = Label(f.m_elseThen)
                      /\ result = Bool(calls[2].ret)
                      /\ calls[2].ret = "void" => result = "true"

\* the else branch taken returned nothing and the flow returned true
C8_Witness ==
    /\ CalledIf
    /\ last.a.kind = "IfThenElse"
    /\ last.a.m_then = Plain("Fail")
    /\ Len(AtDepth(log, 1)) = 2
    /\ AtDepth(log, 1)[1].ret = "false"
    /\ AtDepth(log, 1)[2].ret = "void"
    /\ result = "true"

\* C9: Try(A).Fallback(B) calls A first; when A succeeds B is not called and
\* the result is true; when A returns false B is called on the same
\* arguments and its result is the result.
C9_TryFallback ==
    (last.op = "Call" /\ last.a.kind = "TryFallback") =>
        LET f     == last.a
            calls == AtDepth(log, 1)
        IN  /\ calls[1].label = Label(f.m_try)
            /\ calls[1].in = last.v
            /\ IF Bool(calls[1].ret) = "true"
               THEN /\ Len(calls) = 1
                    /\ result = "true"
                    /\ args = calls[1].out
               ELSE /\ Len(calls) = 2
                    /\ calls[2].label = Label(f.m_fallback)
                    /\ calls[2].in = calls[1].out
                    /\ result = Bool(calls[2].ret)
                    /\ args = calls[2].out

\* the primary returned false, the fallback ran and returned nothing
C9_Witness ==
    /\ last.op = "Call"
    /\ last.a.kind = "TryFallback"
    /\ Len(AtDepth(log, 1)) = 2
    /\ AtDepth(log, 1)[1].ret = "false"
    /\ AtDepth(log, 1)[2].ret = "void"
    /\ result = "true"

\* C10: invoking a sequence a | b | ... calls its elements from left to
\* right, each on the arguments its predecessor left, every one of them
\* whatever the earlier ones returned.
C10_TupleOrder ==
    last.op = "TupleExecute" =>
        /\ TopLabels(log) = Labels(last.a)
        /\ Chained(AtDepth(log, 0), last.v, args)

\* the first element of an invoked sequence returned false and the second
\* was called
C10_Witness ==
    /\ last.op = "TupleExecute"
    /\ Len(last.a.m_actions) = 2
    /\ last.a.m_actions[1] # last.a.m_actions[2]
    /\ AtDepth(log, 0)[1].ret = "false"
    /\ Len(AtDepth(log, 0)) = 2

\* the last operation composed a sequence from blockTuple
Composed == last.op \in {"pipe_action", "pipe_tuple"}

\* what the composition last.op added to the left operand
Added == IF last.op = "pipe_action" THEN << last.a >> ELSE last.a.m_actions

\* C11: sequence | action and sequence | otherSequence yield a new sequence
\* holding the elements of the left operand followed by the added ones, in
\* order, and leave the left operand as it was; start_chain | action is the
\* one-element sequence.
C11_PureComposition ==
    Composed =>
        /\ outcome = "ok"
        /\ piped = BlockTuple(blockTuple.m_actions \o Added)
        /\ Len(piped.m_actions) = Len(blockTuple.m_actions) + Len(Added)

\* the addresses held by the chain bl
Held(bl) == { bl[i] : i \in 1..Len(bl) }

\* the labels of the blocks of the chains ds, one chain after the other
RECURSIVE LabelsAll(_, _, _)
LabelsAll(h, ch, ds) ==
    IF ds = << >> THEN << >>
    ELSE BlockLabels(h, ch[Head(ds)]) \o LabelsAll(h, ch, Tail(ds))

\* invoking the chains ds one after the other on the arguments v, each as
\* it stands in the heap h
RECURSIVE RunAll(_, _, _, _)
RunAll(h, ch, ds, v) ==
    IF ds = << >> THEN [args |-> v, log |-> << >>]
    ELSE LET r    == Execute(h, ch[Head(ds)], v)
             rest == RunAll(h, ch, Tail(ds), r.args)
         IN  [args |-> rest.args, log |-> r.log \o rest.log]

\* C12: the concatenation a | b | c yields a new chain whose blocks are
\* copies of the operands' blocks in left-to-right order: invoking it runs
\* a's actions, then b's, then c's, and the operands keep their blocks and
\* their invocation behaviour.
C12_Concatenation ==
    [][ last'.op = "concat" =>
          LET c   == last'.c
              ds  == last'.d
              res == chains'[c]
          IN  /\ BlockLabels(heap', res) = LabelsAll(heap, chains, ds)
              /\ \A v \in CopyInputs :
                    LET r == Execute(heap', res, v)
                        e == RunAll(heap, chains, ds, v)
                    IN  r.args = e.args /\ r.log = e.log
              /\ \A d \in ConcatNames \ {c} :
                    /\ chains'[d] = chains[d]
                    /\ \A p \in Held(chains[d]) : heap'[p] = heap[p]
                    /\ Behaviour(heap', chains'[d]) = Behaviour(heap, chains[d])
                    /\ Held(res) \cap Held(chains[d]) = {} ]_vars

\* a | b | a was evaluated with a stateful action of a already called once
C12_Witness ==
    /\ last.op = "concat"
    /\ last.d = << "chain", "chain2", "chain" >>
    /\ Len(chains["chain3"]) = 3
    /\ chains["chain"] # << >>
    /\ heap[chains["chain"][1]].m_action.x = 1
    /\ BlockLabels(heap, chains["chain3"])
          = << << "Flip" >>, << "Fail" >>, << "Flip" >> >>

\* the operations that destroy, clear or reassign a chain or the named
\* sequence
SourceGone == {"clear", "assign", "copy_assign", "reset_tuple", "pipe"}

\* C13: a chain keeps no reference to what it was built from: destroying,
\* clearing or reassigning a chain or the named sequence leaves the blocks
\* and the invocation behaviour of every other chain as they were, whether
\* that chain was assigned, copied or concatenated from the source.
C13_NoReference ==
    [][ last'.op \in SourceGone =>
          \A d \in ConcatNames \ {last'.c} :
              /\ chains'[d] = chains[d]
              /\ \A p \in Held(chains[d]) :
                    heap'[p] = heap[p] /\ heap[p].kind = "ExecutionBlock"
              /\ Behaviour(heap', chains'[d]) = Behaviour(heap, chains[d]) ]_vars

\* chain3 was concatenated from chain and chain2, itself built from the
\* sequence; the sequence and both chains are gone and chain3 is whole
C13_Witness ==
    /\ last.op \in {"clear", "reset_tuple"}
    /\ chains["chain"] = << >>
    /\ chains["chain2"] = << >>
    /\ blockTuple = start_chain
    /\ origin["chain3"] = "concat"
    /\ BlockLabels(heap, chains["chain3"]) = << << "Flip" >>, << "Fail" >> >>
    /\ \A p \in Held(chains["chain3"]) : heap[p].kind = "ExecutionBlock"

\* C14: moving a chain, by construction or by assignment, hands the very
\* blocks of the source, in order, to the destination and leaves the source
\* empty: the destination does what the source did, and invoking the
\* moved-from source calls nothing and leaves the arguments alone.
C14_Move ==
    [][ last'.op \in {"move_assign", "move_construct"} =>
          LET c == last'.c
              d == last'.d
          IN  /\ chains'[c] = chains[d]
              /\ \A p \in Held(chains[d]) : heap'[p] = heap[p]
              /\ BlockLabels(heap', chains'[c]) = BlockLabels(heap, chains[d])
              /\ Behaviour(heap', chains'[c]) = Behaviour(heap, chains[d])
              /\ chains'[d] = << >>
              /\ \A v \in ArgInputs :
                    LET r == Execute(heap', chains'[d], v)
                    IN  r.args = v /\ r.log = << >> /\ r.heap = heap' ]_vars

\* a chain of two blocks, one of them stateful and already called, was
\* moved into the other chain
C14_Witness ==
    /\ last.op \in {"move_assign", "move_construct"}
    /\ Len(chains[last.c]) = 2
    /\ chains[last.d] = << >>
    /\ BlockLabels(heap, chains[last.c]) = << << "Flip" >>, << "Fail" >> >>
    /\ heap[chains[last.c][1]].m_action.x = 1

\* the operations that copy a container into a container of the same
\* interface
CopyOps == {"value_copy_construct", "value_copy_assign"}

\* the operations that mutate, empty or destroy the container last.c
MutateOps == {"operator->", "operator*", "value", "assign_nullptr"}

\* C15: copying a non-empty container, by construction or by assignment,
\* leaves the destination owning a distinct object that is a clone of the
\* source's object, of the same dynamic type, and leaves the source alone;
\* copying an empty container leaves the destination empty; mutating,
\* emptying or destroying one container then leaves the objects of the
\* others as they were.
C15_CopyIsClone ==
    [][ /\ (last'.op \in CopyOps /\ last'.c # last'.d /\ outcome' = "ok") =>
            LET src == values[last'.d]
                dst == values'[last'.c]
            IN  IF Holds(heap, src)
                THEN /\ Holds(heap', dst)
                     /\ get(heap', dst) # get(heap, src)
                     /\ HeldObject(heap', dst).type = HeldObject(heap, src).type
                     /\ HeldObject(heap', dst).v = HeldObject(heap, src).v
                     /\ values'[last'.d] = src
                     /\ HeldObject(heap', src) = HeldObject(heap, src)
                ELSE ~Valid(dst)
        /\ last'.op \in MutateOps =>
            \A m \in ValueNames \ {last'.c} :
                /\ values'[m] = values[m]
                /\ Holds(heap, values[m]) =>
                     HeldObject(heap', values[m]) = HeldObject(heap, values[m])
      ]_vars

\* the operations that move a container into another one
MoveOps ==
    {"value_move_construct", "value_move_assign",
     "convert_move_construct", "convert_move_assign"}

\* the addresses of the objects alive in the heap h
Objects(h) ==
    { p \in DOMAIN h :
        h[p].kind \in {"direct_control_block", "pointer_control_block"} }

\* C16: moving a container that holds an object, by move construction,
\* move assignment or the moving conversion to a container of the base
\* interface, leaves the destination holding the very same object and the
\* source empty; the object is neither copied nor released.
C16_MoveTransfers ==
    [][ (last'.op \in MoveOps /\ Holds(heap, values[last'.d])) =>
          LET src == values[last'.d]
              dst == values'[last'.c]
          IN  /\ get(heap', dst) = get(heap, src)
              /\ heap'[get(heap, src)] = heap[get(heap, src)]
              /\ ~Valid(values'[last'.d])
              /\ Objects(heap') \subseteq Objects(heap)
              /\ outcome' = "ok" ]_vars

\* a container of Derived holding a written object was move-assigned to a
\* container of Base that held another object
C16_Witness ==
    /\ last.op = "convert_move_assign"
    /\ ~Valid(values["d1"])
    /\ Holds(heap, values["b1"])
    /\ HeldObject(heap, values["b1"]) = Object("Derived", 0)
    /\ heap[values["b1"].cb_].kind = "delegating_control_block"
    /\ Cardinality(Objects(heap)) = 2

\* the operand x of a comparison holds nothing: nullptr or an empty
\* container
Nothing(x) == x.T = "nullptr_t" \/ ~Valid(x)

\* C17: after a comparison of two containers, or of a container and
\* nullptr, operator== answered true when both hold nothing, false when
\* exactly one holds nothing, and otherwise what the held objects' own
\* equality says; operator!= answered the opposite; a container that is
\* empty, by default construction or after  = nullptr, equals nullptr.
C17_Equality ==
    /\ (last.op \in {"operator==", "operator!="} /\ outcome = "ok") =>
          LET lhs == Operand(last.c)
              rhs == Operand(last.d)
              eq  == IF Nothing(lhs) /\ Nothing(rhs) THEN TRUE
                     ELSE IF Nothing(lhs) \/ Nothing(rhs) THEN FALSE
                     ELSE HeldObject(heap, lhs).v = HeldObject(heap, rhs).v
          IN  result = IF last.op = "operator==" THEN Text(eq) ELSE Text(~eq)
    /\ \A n \in ValueNames :
          ~Valid(values[n]) =>
              /\ Equals(heap, values[n], NullPtr)
              /\ Equals(heap, NullPtr, values[n])
              /\ ~NotEquals(heap, values[n], NullPtr)

\* two containers holding objects with different members were compared
\* with operator!=
C17_Witness ==
    /\ last.op = "operator!="
    /\ last.c = "b1" /\ last.d = "b2"
    /\ Holds(heap, values["b1"]) /\ Holds(heap, values["b2"])
    /\ HeldObject(heap, values["b1"]).v # HeldObject(heap, values["b2"]).v
    /\ result = "true"

\* the operations that construct a container from a value, a raw pointer
\* or a unique_ptr
ConstructOps == {"value_construct", "pointer_construct", "unique_ptr_construct"}

ConvertOps ==
    {"convert_copy_construct", "convert_copy_assign", "reference_conversion",
     "convert_move_construct", "convert_move_assign"}

\* C19: converting a container of a derived interface that holds an
\* object into a container of a base interface keeps the same object only
\* in the moving form, which empties the source; after every other
\* conversion (converting copy construction, converting copy assignment,
\* passing the container where a reference to a base container is expected)
\* the base container holds an object of its own, and the source still
\* holds its object unchanged.
C19_ConversionCopies ==
    [][ (last'.op \in ConvertOps /\ Holds(heap, values[last'.d])
            /\ outcome' = "ok") =>
          LET src == values[last'.d]
              dst == IF last'.op = "reference_conversion"
                     THEN last'.a
                     ELSE values'[last'.c]
          IN  IF last'.op \in {"convert_move_construct", "convert_move_assign"}
              THEN /\ get(heap', dst) = get(heap, src)
                   /\ ~Valid(values'[last'.d])
              ELSE /\ Holds(heap', dst)
                   /\ get(heap', dst) # get(heap, src)
                   /\ values'[last'.d] = src
                   /\ HeldObject(heap', src) = HeldObject(heap, src) ]_vars

\* the accesses to the held object
AccessOps == {"operator->", "operator*", "value"}

\* C20: in a build with assertions enabled, every access to the held
\* object of an empty container, by operator->, operator* or value(), ends
\* in the assertion failure and never returns an invalid reference.
C20_CheckedAccess ==
    (last.op \in AccessOps /\ ~Valid(values[last.c]) /\ ~last.a.ndebug) =>
        outcome = "assertion-failure"

\* the calls logged by an invocation that ended in an exception: the last
\* call is the one that threw, and every call that has not returned by then
\* is left by the exception
ThrownAtEnd(l) ==
    /\ l # << >>
    /\ l[Len(l)].ret = "throw"
    /\ l[Len(l)].label \in { << "Boom" >> }
    /\ \A k \in 1..(Len(l) - 1) :
           l[k].ret = "throw" => l[k].depth < l[k + 1].depth

\* C21: an exception thrown by an action during an invocation reaches the
\* caller: the invocation ends in an exception exactly when an action threw,
\* no action is called after the one that threw, the argument changes made
\* until then are what the caller sees, the chain keeps its blocks, and an
\* invocation that does not throw calls every block in order.
C21_ExceptionPropagates ==
    [][last'.op = "Execute" =>
          LET bl  == chains[last'.c]
              top == AtDepth(log', 0)
          IN  /\ chains' = chains
              /\ BlockLabels(heap', bl) = BlockLabels(heap, bl)
              /\ outcome' \in {"ok", "exception"}
              /\ (outcome' = "exception")
                     <=> (\E k \in 1..Len(log') : log'[k].ret = "throw")
              /\ outcome' = "exception" =>
                     /\ ThrownAtEnd(log')
                     /\ args' = log'[Len(log')].out
                     /\ Len(top) <= Len(BlockLabels(heap, bl))
                     /\ TopLabels(log')
                            = SubSeq(BlockLabels(heap, bl), 1, Len(top))
              /\ outcome' = "ok" =>
                     TopLabels(log') = BlockLabels(heap, bl)]_vars

\* the first of two blocks threw: the invocation ended in an exception
\* after one call, with the argument change of that call in place
C21_Witness ==
    /\ last.op = "Execute"
    /\ outcome = "exception"
    /\ Len(BlockLabels(heap, chains[last.c])) = 2
    /\ Len(AtDepth(log, 0)) = 1
    /\ args # last.v

\* what the composite action flow does on each input: the arguments it
\* leaves and its result
FlowBehaviour ==
    [v \in RefInputs |->
        LET r == Invoke(Resolve(flow), v, 0) IN << r.args, r.ret >>]

\* C22: a composite action owns its constituents by value: invoking (and so
\* modifying) the named object that was passed to Then or Fallback does not
\* change what the composite action does.
C22_OwnedByValue ==
    [][(last'.op = "TupleExecute"
          /\ flow.kind \in {"IfThen", "TryFallback"}) =>
            /\ flow' = flow
            /\ FlowBehaviour' = FlowBehaviour]_vars

\* C22, for the constituents passed as temporaries only
C22_TemporariesOwned ==
    [][(last'.op = "TupleExecute"
          /\ flow.kind \in {"IfThen", "TryFallback"}
          /\ Resolve(flow) = flow) =>
            /\ flow' = flow
            /\ FlowBehaviour' = FlowBehaviour]_vars

\* the control blocks, and with them the objects, the container n owns
OwnedBy(n) == BlocksOf(heap, values[n].cb_)

\* no object is released while a container holds it, and no object has two
\* owners that would both release it
HeldOnce ==
    /\ \A n \in ValueNames : \A p \in OwnedBy(n) : heap[p] # FreeCell
    /\ \A n, m \in ValueNames : n # m => OwnedBy(n) \cap OwnedBy(m) = {}

\* C23: every object handed to a container is released exactly once: it is
\* not released while a container holds it, it has one owner, and an object
\* that no container holds does not stay allocated.
C23_ReleasedOnce ==
    /\ HeldOnce
    /\ \A p \in Addr :
           heap[p] # FreeCell => \E n \in ValueNames : p \in OwnedBy(n)

\* C23, for the objects a container took: what is allocated and held by no
\* container is an object a throwing pointer constructor left behind
C23_HeldReleasedOnce ==
    /\ HeldOnce
    /\ \A p \in Addr :
           (heap[p] # FreeCell /\ heap[p].kind # "allocation")
               => \E n \in ValueNames : p \in OwnedBy(n)

\* the last operation appended or assigned the named sequence to a chain
FromNamed == last.op \in {"append", "assign"} /\ last.a.kind = "BlockTuple"

\* C24: appending or assigning a named sequence to a chain stores a clone
\* and leaves the source as it was: the source holds its original state and
\* does what it did before.
C24_SourceUnchanged ==
    [][FromNamed' =>
          /\ heap'[chains'[last'.c][Len(chains'[last'.c])]].m_action = blockTuple
          /\ blockTuple' = blockTuple
          /\ \A v \in ArgInputs :
                 Invoke(blockTuple', v, 0).args = Invoke(blockTuple, v, 0).args]_vars

\* C24, for what the chain stores, and for the sources whose move is a copy
C24_CloneStored ==
    [][FromNamed' =>
          /\ heap'[chains'[last'.c][Len(chains'[last'.c])]].m_action = blockTuple
          /\ MovedFrom(blockTuple) = blockTuple => blockTuple' = blockTuple]_vars

\* C25: a container reports non-empty exactly when get() returns an object
\* it holds; in particular a container converted from an empty container of
\* a derived class is empty.
C25_NonEmptyHolds ==
    \A n \in ValueNames : Valid(values[n]) <=> Holds(heap, values[n])

\* C25, for the containers that were not built by a converting constructor
\* from an empty source: a delegating block without delegate is the only
\* way to be non-empty without an object
C25_HollowOnly ==
    \A n \in ValueNames :
        (Valid(values[n]) /\ ~Holds(heap, values[n])) =>
            /\ heap[values[n].cb_].kind = "delegating_control_block"
            /\ heap[values[n].cb_].delegate_ = Null

\* C26: the assignment of a value to a container never stores a sliced
\* object without telling: the container then holds an object of the dynamic
\* type and state of the value, or the assignment fails with the
\* construction error and the container keeps what it held.
C26_NoSilentSlice ==
    [][last'.op = "value_assign" =>
          \/ /\ outcome' = "ok"
             /\ Holds(heap', values'[last'.c])
             /\ HeldObject(heap', values'[last'.c]) = last'.a.u
          \/ /\ outcome' = BadConstruction
             /\ values' = values
             /\ heap' = heap]_vars

\* C26, as the code has it: the assignment never fails, and the container
\* holds an object of the static type of the value
C26_StaticTypeStored ==
    [][last'.op = "value_assign" =>
          /\ outcome' = "ok"
          /\ Holds(heap', values'[last'.c])
          /\ HeldObject(heap', values'[last'.c])
                 = Object(last'.a.U, last'.a.u.v)
          /\ \A p \in BlocksOf(heap, values[last'.c].cb_) : heap'[p] = FreeCell]_vars

\* the chain c holds, after the step, its former blocks followed by clones
\* of them, in order
Doubled(c) ==
    /\ SubSeq(chains'[c], 1, Len(chains[c])) = chains[c]
    /\ Len(chains'[c]) = Len(chains[c]) + Len(chains[c])
    /\ \A i \in 1..Len(chains[c]) :
           /\ chains'[c][Len(chains[c]) + i] \notin Held(chains[c])
           /\ heap'[chains'[c][Len(chains[c]) + i]] = heap[chains[c][i]]
    /\ \A i \in 1..Len(chains[c]) : heap'[chains[c][i]] = heap[chains[c][i]]

\* C27: appending a chain to itself is well defined: the block list is
\* doubled, the second half holding clones of the first, in order.
C27_SelfAppend ==
    [][last'.op = "append_self" =>
          outcome' = "ok" /\ Doubled(last'.c)]_vars

\* C27, when the vector does not reallocate: then the list is doubled
C27_SelfAppendInPlace ==
    [][(last'.op = "append_self" /\ outcome' = "ok") => Doubled(last'.c)]_vars

\* every call of the last invocation found the vector the caller passed
AllObserve == \A k \in 1..Len(log) : log[k].in.a = last.v.a

\* C28: a sequence invoked with a temporary argument hands every element
\* the argument as the elements before it left it: elements that only read
\* the vector all observe the vector the caller passed.
C28_NoConsumedArgument ==
    last.op = "TupleExecuteRvalue" =>
        /\ Len(log) = Len(last.a.m_actions)
        /\ AllObserve

\* C28, for a named (lvalue) argument: there every element observes the
\* vector the caller passed, and the caller keeps it
C28_LvalueObserved ==
    last.op = "TupleExecute" =>
        /\ Len(log) = Len(last.a.m_actions)
        /\ AllObserve
        /\ args.a = last.v.a

====
